---- MODULE Spec2Model ----
(***************************************************************************)
(* fmconv: the register-capture pipeline.                                  *)
(*                                                                         *)
(*   CVgmOpl  (src/adplug_vgm/vgm_opl.cpp)   passive capture chip: buffers *)
(*            timed register writes, serialises them in generateVgm.       *)
(*   VGMOPL3  (src/vgm_writer/vgm_chip.cpp)  active capture chip: streams  *)
(*            commands into the VGM buffer as they are written.            *)
(*   GD3Tag   (src/vgm_writer/gd3_tag.cpp)   the metadata block.           *)
(*   convert_native_opl (src/unified_converter.cpp) the driver loop and    *)
(*            its first-sighting table.                                    *)
(*                                                                         *)
(* Objects are records, methods are operators from a record (and the       *)
(* arguments) to the record after the call; an action applies one call.    *)
(* Byte vectors are sequences of 0..255; the byte at file offset o is      *)
(* buf[o + 1].                                                             *)
(***************************************************************************)
EXTENDS Integers, Sequences, FiniteSets, TLC

\* ------------------------------------------------------------- constants
\* vgm_opl.cpp:12-20, VGM commands
CMD_OPL2 == 90
CMD_OPL2_2ND == 170
CMD_OPL3_PORT0 == 94
CMD_OPL3_PORT1 == 95
CMD_WAIT == 97
CMD_WAIT_735 == 98
CMD_WAIT_882 == 99
CMD_END == 102
CMD_WAIT_N == 112

\* vgm_opl.cpp:23-31, VGM header offsets
VGM_OFF_EOF == 4
VGM_OFF_VERSION == 8
VGM_OFF_GD3 == 20
VGM_OFF_SAMPLES == 24
VGM_OFF_LOOP_OFFSET == 28
VGM_OFF_LOOP_SAMPLES == 32
VGM_OFF_DATA == 52
VGM_OFF_YM3812 == 80
VGM_OFF_YMF262 == 92

\* vgm_opl.cpp:34-36, chip clocks
CLOCK_YM3812 == 3579545
CLOCK_YMF262 == 14318180
VGM_DUAL_BIT == 1073741824

\* "Vgm " and version 1.51 as little-endian dwords
VGM_MAGIC == 544040790
VGM_VERSION == 337

\* header sizes: CVgmOpl::writeVgmHeader and VGMOPL3::initializeHeader
HEADER_SIZE_PASSIVE == 256
HEADER_SIZE_ACTIVE == 128

\* integer widths.  uint32_t quantities (sample counters, buffer sizes) are
\* plain integers: with the inputs below they stay far under 2^31.  The
\* sample counters the driver loop adds to can pass 2^31 and wrap: such a
\* uint32_t is kept as the int32_t of the same bits (0xFFFFFFFF is -1).
U8 == 256
U16 == 65536

\* the two 16-bit halves of the uint32_t kept as a
U32Halves(a) ==
    IF a >= 0 THEN << a \div U16, a % U16 >>
    ELSE << U16 - 1 - ((-(a + 1)) \div U16), U16 - 1 - ((-(a + 1)) % U16) >>

\* a + b on uint32_t
U32Add(a, b) ==
    LET x == U32Halves(a)
        y == U32Halves(b)
        l == x[2] + y[2]
        h == (x[1] + y[1] + (l \div U16)) % U16
    IN  IF h < 32768 THEN h * U16 + (l % U16)
        ELSE -((U16 - 1 - h) * U16 + (U16 - 1 - (l % U16))) - 1

\* a < b on uint32_t
U32Less(a, b) ==
    LET x == U32Halves(a)
        y == U32Halves(b)
    IN  x[1] < y[1] \/ (x[1] = y[1] /\ x[2] < y[2])

\* ---------------------------------------------------------- byte helpers
\* the four little-endian bytes of a uint32_t (two's complement for v < 0)
LE32(v) ==
    << v % 256, (v \div 256) % 256, (v \div 65536) % 256, (v \div 16777216) % 256 >>

\* u32[off / 4] = v on a byte vector (off is a multiple of 4 inside buf)
PutU32(buf, off, v) ==
    SubSeq(buf, 1, off) \o LE32(v) \o SubSeq(buf, off + 5, Len(buf))

\* the dword read back from file offset off
GetU32(buf, off) ==
    buf[off + 1] + 256 * buf[off + 2] + 65536 * buf[off + 3] + 16777216 * buf[off + 4]

Zeros(n) == [i \in 1..n |-> 0]

\* ------------------------------------------------------------- GD3Tag
\* A tag is a record of the 11 fields, each a sequence of UTF-8 bytes.
GD3Fields ==
    << "title_en", "title", "album_en", "album", "system_en", "system",
       "author_en", "author", "date", "converted_by", "notes" >>

\* std::wstring_convert<codecvt_utf8_utf16>::from_bytes: 1-, 2- and 3-byte
\* sequences give one unit, a 4-byte sequence gives a surrogate pair; any
\* malformed sequence throws and the field becomes empty.
RECURSIVE Utf8Decode(_, _)
Utf8Decode(s, acc) ==
    IF s = << >> THEN [ok |-> TRUE, units |-> acc]
    ELSE LET b == s[1] IN
         IF b < 128 THEN Utf8Decode(Tail(s), Append(acc, b))
         ELSE IF b >= 194 /\ b < 224 /\ Len(s) >= 2 /\ s[2] >= 128 /\ s[2] < 192
              THEN Utf8Decode(SubSeq(s, 3, Len(s)),
                              Append(acc, (b - 192) * 64 + (s[2] - 128)))
         ELSE IF b >= 224 /\ b < 240 /\ Len(s) >= 3
                 /\ s[2] >= 128 /\ s[2] < 192 /\ s[3] >= 128 /\ s[3] < 192
                 /\ (b - 224) * 4096 + (s[2] - 128) * 64 + (s[3] - 128) >= 2048
              THEN Utf8Decode(SubSeq(s, 4, Len(s)),
                              Append(acc, (b - 224) * 4096 + (s[2] - 128) * 64 + (s[3] - 128)))
         ELSE IF b >= 240 /\ b < 245 /\ Len(s) >= 4
                 /\ \A i \in 2..4 : s[i] >= 128 /\ s[i] < 192
              THEN LET cp == (b - 240) * 262144 + (s[2] - 128) * 4096
                               + (s[3] - 128) * 64 + (s[4] - 128)
                   IN  IF cp >= 65536 /\ cp <= 1114111
                       THEN Utf8Decode(SubSeq(s, 5, Len(s)),
                                       acc \o << 55296 + ((cp - 65536) \div 1024),
                                                 56320 + ((cp - 65536) % 1024) >>)
                       ELSE [ok |-> FALSE, units |-> << >>]
         ELSE [ok |-> FALSE, units |-> << >>]

utf8_to_utf16(utf8) ==
    IF utf8 = << >> THEN << >>
    ELSE LET r == Utf8Decode(utf8, << >>) IN IF r.ok THEN r.units ELSE << >>

\* the UTF-16LE bytes of one field followed by its two-byte terminator
RECURSIVE Utf16LE(_)
Utf16LE(units) ==
    IF units = << >> THEN << >>
    ELSE << units[1] % 256, (units[1] \div 256) % 256 >> \o Utf16LE(Tail(units))

RECURSIVE GD3Strings(_, _)
GD3Strings(tag, k) ==
    IF k > Len(GD3Fields) THEN << >>
    ELSE Utf16LE(utf8_to_utf16(tag[GD3Fields[k]])) \o << 0, 0 >> \o GD3Strings(tag, k + 1)

\* GD3Tag::serialize: "Gd3 ", version 1.00, payload length, the 11 strings
GD3_serialize(tag) ==
    LET payload == GD3Strings(tag, 1)
    IN  << 71, 100, 51, 32 >> \o << 0, 1, 0, 0 >> \o LE32(Len(payload)) \o payload

\* std::wstring_convert<codecvt_utf8_utf16>::to_bytes: a unit gives 1, 2 or 3
\* bytes, a surrogate pair gives 4; a surrogate out of a pair throws.
RECURSIVE Utf8Encode(_, _)
Utf8Encode(units, acc) ==
    IF units = << >> THEN [ok |-> TRUE, bytes |-> acc]
    ELSE LET u == units[1] IN
         IF u < 128 THEN Utf8Encode(Tail(units), Append(acc, u))
         ELSE IF u < 2048
              THEN Utf8Encode(Tail(units), acc \o << 192 + (u \div 64), 128 + (u % 64) >>)
         ELSE IF u >= 55296 /\ u < 56320
              THEN IF Len(units) >= 2 /\ units[2] >= 56320 /\ units[2] < 57344
                   THEN LET cp == 65536 + (u - 55296) * 1024 + (units[2] - 56320)
                        IN  Utf8Encode(SubSeq(units, 3, Len(units)),
                                       acc \o << 240 + (cp \div 262144),
                                                 128 + ((cp \div 4096) % 64),
                                                 128 + ((cp \div 64) % 64),
                                                 128 + (cp % 64) >>)
                   ELSE [ok |-> FALSE, bytes |-> << >>]
         ELSE IF u >= 56320 /\ u < 57344 THEN [ok |-> FALSE, bytes |-> << >>]
         ELSE Utf8Encode(Tail(units), acc \o << 224 + (u \div 4096),
                                                128 + ((u \div 64) % 64),
                                                128 + (u % 64) >>)

\* (mutation of utf16_to_utf8: only the low byte of each unit is kept)
utf16_to_utf8_lowByte(units) == [i \in 1..Len(units) |-> units[i] % 128]

\* GD3Tag::utf16_to_utf8
utf16_to_utf8(units) ==
    IF units = << >> THEN << >>
    ELSE LET r == Utf8Encode(units, << >>) IN IF r.ok THEN r.bytes ELSE << >>

\* GD3Tag::parse, lines 152-163: the units up to a zero unit or to the end of
\* the data; str_data is an offset into data
RECURSIVE GD3ReadString(_, _, _, _)
GD3ReadString(data, str_data, remaining, chars) ==
    IF remaining < 2
    THEN [chars |-> chars, str_data |-> str_data, remaining |-> remaining]
    ELSE LET ch == data[str_data + 1] + 256 * data[str_data + 2]
         IN  IF ch = 0
             THEN [chars |-> chars, str_data |-> str_data + 2, remaining |-> remaining - 2]
             ELSE GD3ReadString(data, str_data + 2, remaining - 2, Append(chars, ch))

\* GD3Tag::parse, lines 146-173: the fields from the k-th on
RECURSIVE GD3ParseFields(_, _, _, _, _)
GD3ParseFields(self, data, str_data, remaining, k) ==
    IF k > Len(GD3Fields) THEN self
    ELSE IF remaining < 2 THEN self
    ELSE LET s == GD3ReadString(data, str_data, remaining, << >>)
             field == IF s.chars # << >> THEN utf16_to_utf8(s.chars) ELSE << >>
         IN  GD3ParseFields([self EXCEPT ![GD3Fields[k]] = field],
                            data, s.str_data, s.remaining, k + 1)

\* GD3Tag::parse on the tag object self: the value returned and the object
\* afterwards (the inputs keep data_length below 2^31)
GD3_parse(self, data, size) ==
    IF size < 12 THEN [ok |-> FALSE, tag |-> self]
    ELSE IF SubSeq(data, 1, 4) # << 71, 100, 51, 32 >> THEN [ok |-> FALSE, tag |-> self]
    ELSE LET data_length == data[9] + 256 * data[10] + 65536 * data[11]
                                + 16777216 * data[12]
         IN  IF size < 12 + data_length THEN [ok |-> FALSE, tag |-> self]
             ELSE [ok |-> TRUE, tag |-> GD3ParseFields(self, data, 12, data_length, 1)]

\* --------------------------------------------------------------- CVgmOpl
\* The modelled part of the register file: a plain register (0x05) and the
\* register of the same low address on port 1 (0x105, the OPL3-mode register),
\* one register of the volume band (0x40) and one of the key band (0xB0).
Regs == {5, 64, 176, 261}
Vals == {0, 1}
Chips == {0, 1}
RegLows == {r % 256 : r \in Regs}

TYPE_OPL2 == "OPL2"
TYPE_DUAL_OPL2 == "DUAL_OPL2"
TYPE_OPL3 == "OPL3"

\* A GD3Tag* is << >> for nullptr and << tag >> for a pointer to tag.
NoTag == << >>

\* CVgmOpl::CVgmOpl
CVgmOpl_new ==
    [ currChip          |-> 0,
      writes            |-> << >>,
      pending_samples   |-> 0,
      total_samples     |-> 0,
      used_opl3_regs    |-> FALSE,
      used_opl3_mode    |-> FALSE,
      used_second_chip  |-> FALSE,
      detected_type     |-> TYPE_OPL2,
      loop_point_marked |-> FALSE,
      loop_write_index  |-> 0,
      loop_sample_pos   |-> 0,
      reg_state         |-> [c \in Chips, r \in RegLows |-> 0],
      reg_written       |-> [c \in Chips, r \in RegLows |-> FALSE] ]

\* CVgmOpl::setchip (Copl::setchip selects the chip, n in {0, 1})
CVgmOpl_setchip(self, n) ==
    [self EXCEPT !.currChip = n,
                 !.used_second_chip = @ \/ (n = 1)]

\* write(), lines 85-94: the OPL3 detection flags
DetectOpl3Usage(self, reg, val) ==
    IF reg >= 256
    THEN [self EXCEPT !.used_opl3_regs = TRUE,
                      !.used_opl3_mode = @ \/ (reg = 261 /\ val % 2 = 1)]
    ELSE self

\* write(), lines 97-104: the row of the state matrix a write is tracked in
StateChip(self, reg) == IF reg >= 256 THEN 1 ELSE self.currChip

\* (mutation of is_key_or_volume: the volume band is forgotten)
is_key_only(reg_low) == reg_low >= 160 /\ reg_low <= 191

\* write(), lines 108-109
is_key_or_volume(reg_low) ==
    (reg_low >= 160 /\ reg_low <= 191) \/ (reg_low >= 64 /\ reg_low <= 85)

\* write(), lines 111-113: the condition of the early return
WriteIsSkipped(self, reg, val) ==
    LET chip == StateChip(self, reg)
        reg_low == reg % 256
    IN  /\ self.reg_written[chip, reg_low]
        /\ self.reg_state[chip, reg_low] = val % U8
        /\ ~is_key_or_volume(reg_low)

\* write(), lines 118-132: record the state, buffer the write, drain pending
BufferWrite(self, reg, val) ==
    LET chip == StateChip(self, reg)
        reg_low == reg % 256
        w == [ delay_samples |-> self.pending_samples,
               reg           |-> reg % U16,
               val           |-> val % U8,
               chip          |-> self.currChip % U8 ]
    IN  [self EXCEPT !.reg_state[chip, reg_low] = val % U8,
                     !.reg_written[chip, reg_low] = TRUE,
                     !.writes = Append(@, w),
                     !.total_samples = @ + self.pending_samples,
                     !.pending_samples = 0]

\* (mutation of SkipWrite: the skipped write clears the pending samples)
SkipWrite_clearsPending(self) == [self EXCEPT !.pending_samples = 0]

\* write(), line 115: what a skipped write leaves behind
SkipWrite(self) == self

\* CVgmOpl::write
CVgmOpl_write(self, reg, val) ==
    LET s == DetectOpl3Usage(self, reg, val)
    IN  IF WriteIsSkipped(s, reg, val) THEN SkipWrite(s) ELSE BufferWrite(s, reg, val)

\* CVgmOpl::advanceSamples
CVgmOpl_advanceSamples(self, samples) ==
    [self EXCEPT !.pending_samples = U32Add(@, samples)]

\* CVgmOpl::setLoopPoint
CVgmOpl_setLoopPoint(self, write_index, sample_pos) ==
    IF self.loop_point_marked THEN self
    ELSE [self EXCEPT !.loop_point_marked = TRUE,
                      !.loop_write_index = write_index,
                      !.loop_sample_pos = sample_pos]

\* (mutation of detectChipType: the second chip takes priority over OPL3)
detectChipType_dualFirst(self) ==
    IF self.used_second_chip THEN TYPE_DUAL_OPL2
    ELSE IF self.used_opl3_regs \/ self.used_opl3_mode THEN TYPE_OPL3
    ELSE TYPE_OPL2

\* CVgmOpl::detectChipType
detectChipType(self) ==
    IF self.used_opl3_regs \/ self.used_opl3_mode THEN TYPE_OPL3
    ELSE IF self.used_second_chip THEN TYPE_DUAL_OPL2
    ELSE TYPE_OPL2

\* writeVgmHeader(), lines 254-265: the zeroed header with the magic, the
\* version and the data offset
HeaderCommon ==
    LET h0 == PutU32(Zeros(HEADER_SIZE_PASSIVE), 0, VGM_MAGIC)
        h1 == PutU32(h0, VGM_OFF_VERSION, VGM_VERSION)
    IN  PutU32(h1, VGM_OFF_DATA, HEADER_SIZE_PASSIVE - VGM_OFF_DATA)

\* CVgmOpl::writeVgmHeader
writeVgmHeader(detected_type) ==
    LET h2 == HeaderCommon
    IN  CASE detected_type = TYPE_OPL2 -> PutU32(h2, VGM_OFF_YM3812, CLOCK_YM3812)
          [] detected_type = TYPE_DUAL_OPL2 ->
                 \* CLOCK_YM3812 | VGM_DUAL_BIT: the bit is clear in the clock
                 PutU32(h2, VGM_OFF_YM3812, CLOCK_YM3812 + VGM_DUAL_BIT)
          [] detected_type = TYPE_OPL3 -> PutU32(h2, VGM_OFF_YMF262, CLOCK_YMF262)

\* CVgmOpl::writeVgmCommand
writeVgmCommand(buffer, cmd, reg, val) ==
    buffer \o << cmd % U8, reg % U8, val % U8 >>

\* (mutation of writeVgmDelay: every delay as 0x61 lo hi, no short forms)
RECURSIVE writeVgmDelay_plain(_, _)
writeVgmDelay_plain(buffer, samples) ==
    IF samples = 0 THEN buffer
    ELSE LET wait == IF samples > 65535 THEN 65535 ELSE samples
         IN  writeVgmDelay_plain(buffer \o << CMD_WAIT, wait % 256, wait \div 256 >>,
                                 samples - wait)

\* CVgmOpl::writeVgmDelay: one round of the while loop, then the rest
RECURSIVE writeVgmDelay(_, _)
writeVgmDelay(buffer, samples) ==
    IF samples = 0 THEN buffer
    ELSE IF samples = 735 THEN Append(buffer, CMD_WAIT_735)
    ELSE IF samples = 882 THEN Append(buffer, CMD_WAIT_882)
    ELSE IF samples <= 16 THEN Append(buffer, CMD_WAIT_N + (samples - 1))
    ELSE LET wait == IF samples > 65535 THEN 65535 ELSE samples
         IN  writeVgmDelay(buffer \o << CMD_WAIT, wait % 256, wait \div 256 >>,
                           samples - wait)

\* (mutation of CommandFor: the OPL3 port is taken from the selected chip)
CommandFor_byChip(detected_type, w) ==
    CASE detected_type = TYPE_OPL2 -> CMD_OPL2
      [] detected_type = TYPE_DUAL_OPL2 ->
             IF w.chip = 0 THEN CMD_OPL2 ELSE CMD_OPL2_2ND
      [] detected_type = TYPE_OPL3 ->
             IF w.chip = 0 THEN CMD_OPL3_PORT0 ELSE CMD_OPL3_PORT1

\* writeVgmData(), lines 304-324: the opcode of one buffered write
CommandFor(detected_type, w) ==
    CASE detected_type = TYPE_OPL2 -> CMD_OPL2
      [] detected_type = TYPE_DUAL_OPL2 ->
             IF w.chip = 0 THEN CMD_OPL2 ELSE CMD_OPL2_2ND
      [] detected_type = TYPE_OPL3 ->
             IF w.reg >= 256 THEN CMD_OPL3_PORT1 ELSE CMD_OPL3_PORT0

\* writeVgmData(), lines 292-296: remember where the loop write starts
MarkLoopOffset(self, i, buffer, loop_byte_offset) ==
    IF self.loop_point_marked /\ i = self.loop_write_index
    THEN Len(buffer)
    ELSE loop_byte_offset

\* CVgmOpl::writeVgmData from the write of index i (0-based) on
RECURSIVE writeVgmDataFrom(_, _, _, _)
writeVgmDataFrom(self, i, buffer, loop_byte_offset) ==
    IF i >= Len(self.writes)
    THEN [buffer |-> buffer, loop_byte_offset |-> loop_byte_offset]
    ELSE LET w == self.writes[i + 1]
             lbo == MarkLoopOffset(self, i, buffer, loop_byte_offset)
             b1 == IF w.delay_samples > 0
                   THEN writeVgmDelay(buffer, w.delay_samples) ELSE buffer
             b2 == writeVgmCommand(b1, CommandFor(self.detected_type, w),
                                   w.reg % 256, w.val)
         IN  writeVgmDataFrom(self, i + 1, b2, lbo)

writeVgmData(self, buffer) == writeVgmDataFrom(self, 0, buffer, 0)

\* generateVgm(), lines 200-202: the samples still pending join the total
FlushTotal(self) ==
    [self EXCEPT !.total_samples = @ + self.pending_samples,
                 !.pending_samples = 0]

\* (mutation of AppendGD3: the GD3 offset is stored absolute)
AppendGD3_absolute(vgm, gd3_tag) ==
    IF gd3_tag # NoTag
    THEN PutU32(vgm, VGM_OFF_GD3, Len(vgm)) \o GD3_serialize(gd3_tag[1])
    ELSE vgm

\* generateVgm(), lines 221-228: the GD3 offset and the tag
AppendGD3(vgm, gd3_tag) ==
    IF gd3_tag # NoTag
    THEN PutU32(vgm, VGM_OFF_GD3, Len(vgm) - VGM_OFF_GD3) \o GD3_serialize(gd3_tag[1])
    ELSE vgm

\* (mutation of PatchLoop: the loop offset is stored absolute)
PatchLoop_absolute(self, vgm, loop_byte_offset) ==
    IF self.loop_point_marked /\ loop_byte_offset > 0
    THEN PutU32(PutU32(vgm, VGM_OFF_LOOP_OFFSET, loop_byte_offset),
                VGM_OFF_LOOP_SAMPLES, self.total_samples - self.loop_sample_pos)
    ELSE vgm

\* generateVgm(), lines 238-246: the loop fields
PatchLoop(self, vgm, loop_byte_offset) ==
    IF self.loop_point_marked /\ loop_byte_offset > 0
    THEN PutU32(PutU32(vgm, VGM_OFF_LOOP_OFFSET, loop_byte_offset - VGM_OFF_LOOP_OFFSET),
                VGM_OFF_LOOP_SAMPLES, self.total_samples - self.loop_sample_pos)
    ELSE vgm

\* (mutation of generateVgmSteps: the loop fields are patched before the tag
\* is appended)
generateVgmSteps_loopBeforeGd3(self, gd3_tag) ==
    LET h  == writeVgmHeader(self.detected_type)
        d  == writeVgmData(self, h)
        v1 == Append(d.buffer, CMD_END)
        v2 == PatchLoop(self, v1, d.loop_byte_offset)
        v3 == AppendGD3(v2, gd3_tag)
        v4 == PutU32(PutU32(v3, VGM_OFF_EOF, Len(v3) - VGM_OFF_EOF),
                     VGM_OFF_SAMPLES, self.total_samples)
    IN  << h, d.buffer, v1, v2, v3, v4 >>

\* generateVgm(), lines 207-246: the buffer after each of its steps (header,
\* data, end marker, GD3 tag, EOF offset and total samples, loop fields)
generateVgmSteps(self, gd3_tag) ==
    LET h  == writeVgmHeader(self.detected_type)
        d  == writeVgmData(self, h)
        v1 == Append(d.buffer, CMD_END)
        v2 == AppendGD3(v1, gd3_tag)
        v3 == PutU32(PutU32(v2, VGM_OFF_EOF, Len(v2) - VGM_OFF_EOF),
                     VGM_OFF_SAMPLES, self.total_samples)
    IN  << h, d.buffer, v1, v2, v3, PatchLoop(self, v3, d.loop_byte_offset) >>

\* CVgmOpl::generateVgm: the chip after the call and the bytes returned
CVgmOpl_generateVgm(self, gd3_tag) ==
    LET s1 == FlushTotal(self)
        s2 == [s1 EXCEPT !.detected_type = detectChipType(s1)]
        steps == generateVgmSteps(s2, gd3_tag)
    IN  [self |-> s2, vgm |-> steps[Len(steps)]]

\* --------------------------------------------------------------- VGMOPL3
\* The modelled part of reg_state_[512]: the registers of the constructor's
\* initialisation sequence and the ones the player writes.
InitSequence ==
    << <<4, 96>>, <<4, 128>>, <<261, 0>>, <<261, 1>>, <<261, 0>>, <<1, 32>>, <<261, 1>> >>
Addrs == Regs \cup {InitSequence[k][1] : k \in 1..Len(InitSequence)}

\* VGMOPL3::initializeHeader
VGMOPL3_initializeHeader ==
    LET h0 == PutU32(Zeros(HEADER_SIZE_ACTIVE), 0, VGM_MAGIC)
        h1 == PutU32(h0, VGM_OFF_VERSION, VGM_VERSION)
        h2 == PutU32(h1, VGM_OFF_DATA, HEADER_SIZE_ACTIVE - VGM_OFF_DATA)
    IN  PutU32(h2, VGM_OFF_YMF262, CLOCK_YMF262)

\* VGMOPL3::flushDelay: 0x61 lo hi, at most 65535 samples a command
RECURSIVE FlushWaits(_, _)
FlushWaits(buffer, pending) ==
    IF pending = 0 THEN buffer
    ELSE LET samples == IF pending > 65535 THEN 65535 ELSE pending
         IN  FlushWaits(buffer \o << CMD_WAIT, samples % 256, samples \div 256 >>,
                        pending - samples)

VGMOPL3_flushDelay(self) ==
    IF self.pending_samples = 0 THEN self
    ELSE [self EXCEPT !.total_samples = @ + self.pending_samples,
                      !.vgm_buffer = FlushWaits(@, self.pending_samples),
                      !.pending_samples = 0]

\* writeReg(), lines 117-118: the condition of the early return
RegIsRedundant(self, addr, data) == self.reg_state[addr % 512] = data % U8

\* writeReg() that emits the command and leaves reg_state_ as it was
EmitReg_noRecord(self, addr, data) ==
    LET s2 == VGMOPL3_flushDelay(self)
        opcode == IF (addr \div 256) % 2 = 1 THEN CMD_OPL3_PORT1 ELSE CMD_OPL3_PORT0
    IN  [s2 EXCEPT !.vgm_buffer = @ \o << opcode, addr % 256, data % U8 >>]

\* writeReg(), lines 120-132: record the state, flush the delay, emit the command
EmitReg(self, addr, data) ==
    LET s1 == [self EXCEPT !.reg_state[addr % 512] = data % U8]
        s2 == VGMOPL3_flushDelay(s1)
        opcode == IF (addr \div 256) % 2 = 1 THEN CMD_OPL3_PORT1 ELSE CMD_OPL3_PORT0
    IN  [s2 EXCEPT !.vgm_buffer = @ \o << opcode, addr % 256, data % U8 >>]

\* VGMOPL3::writeReg
VGMOPL3_writeReg(self, addr, data) ==
    IF RegIsRedundant(self, addr, data) THEN self ELSE EmitReg(self, addr, data)

\* VGMOPL3::initializeOPL3 from the k-th write of the sequence on
RECURSIVE initializeOPL3From(_, _)
initializeOPL3From(self, k) ==
    IF k > Len(InitSequence) THEN self
    ELSE initializeOPL3From(
             VGMOPL3_writeReg(self, InitSequence[k][1], InitSequence[k][2]), k + 1)

\* VGMOPL3::VGMOPL3
VGMOPL3_new(gd3_tag) ==
    initializeOPL3From(
        [ vgm_buffer      |-> VGMOPL3_initializeHeader,
          gd3_tag         |-> gd3_tag,
          total_samples   |-> 0,
          pending_samples |-> 0,
          reg_state       |-> [a \in Addrs |-> 0] ], 1)

\* the VGMOPL3 of a conversion that never constructs one
NoChip ==
    [ vgm_buffer      |-> << >>,
      gd3_tag         |-> NoTag,
      total_samples   |-> 0,
      pending_samples |-> 0,
      reg_state       |-> [a \in Addrs |-> 0] ]

\* VGMOPL3::accumulateDelay
VGMOPL3_accumulateDelay(self, samples) ==
    [self EXCEPT !.pending_samples = @ + samples]

\* VGMOPL3::updateHeader
VGMOPL3_updateHeader(self) ==
    [self EXCEPT !.vgm_buffer =
        PutU32(PutU32(@, VGM_OFF_EOF, Len(@) - VGM_OFF_EOF),
               VGM_OFF_SAMPLES, self.total_samples)]

\* VGMOPL3::finalize
VGMOPL3_finalize(self) ==
    LET s1 == VGMOPL3_flushDelay(self)
        s2 == [s1 EXCEPT !.vgm_buffer = Append(@, CMD_END)]
        s3 == IF self.gd3_tag # NoTag
              THEN [s2 EXCEPT !.vgm_buffer =
                       PutU32(@, VGM_OFF_GD3, Len(@) - VGM_OFF_GD3)
                           \o GD3_serialize(self.gd3_tag[1])]
              ELSE s2
    IN  VGMOPL3_updateHeader(s3)

\* ------------------------------------------------------------ the inputs
MaxCalls == 2
MaxAdvances == 2
SampleSteps == {735}

\* the tags a conversion is run with: none, or one with a title ("A" and
\* U+00E9 in UTF-8)
EmptyTag == [f \in {GD3Fields[k] : k \in 1..Len(GD3Fields)} |-> << >>]
GD3Choices == {NoTag, << [EmptyTag EXCEPT !["title_en"] = << 65, 195, 169 >>] >>}

\* ------------------------------------------------- convert_native_opl
\* The upstream player is a collaborator: its position, its refresh rate, the
\* writes of one update() and the value update() returns are free choices.
Orders == {0, 1, 2}
\* the sample budget opts.max_length_sec * 44100 of the modelled conversions
max_samples == 1500
\* refresh rates, the float m * 2^s as << m, s >>; << 0, 0 >> is out of range
Refreshes == {<<70, 0>>, <<0, 0>>}
\* the registers the player of a driven conversion writes
DriverRegs == {5}

RECURSIVE Pow2(_)
Pow2(n) == IF n = 0 THEN 1 ELSE 2 * Pow2(n - 1)

\* the position of the highest bit set of n >= 1
RECURSIVE Log2(_)
Log2(n) == IF n < 2 THEN 0 ELSE 1 + Log2(n \div 2)

\* lines 1153-1156: an out-of-range refresh rate is replaced by 70 Hz
EffectiveRefresh(r) ==
    IF \/ r[1] <= 0
       \/ r[2] >= 0 /\ (r[2] > 13 \/ r[1] > 10000 \div Pow2(r[2]))
       \/ r[2] < 0 /\ r[2] > -11 /\ r[1] > 10000 * Pow2(-r[2])
    THEN <<70, 0>> ELSE r

\* A double d >= 0 is kept as << I, hi, lo >> with hi, lo < 2^25:
\* d = I + (hi * 2^25 + lo) / 2^50; I = -1 stands for a double of at least
\* 2^64.  The doubles of the loop are multiples of 2^-50: a quotient
\* 44100 / refresh is at least 4.41 and so is every sum it is added into.
Limb == Pow2(25)

\* the double nearest to I + (hi * 2^25 + lo + t) / 2^50 (53 significant bits,
\* ties to even) for 4 <= I < 2^26 and 0 <= t < 1; tail tells t = 0 (0),
\* t < 1/2 (1), t = 1/2 (2) or t > 1/2 (3)
RoundToDouble(I, hi, lo, tail) ==
    LET d == Log2(I) - 2
        m == Pow2(d)
        r == lo % m
        odd == (lo \div m) % 2 = 1
        up == IF d = 0 THEN tail = 3 \/ (tail = 2 /\ odd)
              ELSE 2 * r > m \/ (2 * r = m /\ (tail # 0 \/ odd))
        lo1 == lo - r + (IF up THEN m ELSE 0)
        hi1 == hi + (lo1 \div Limb)
    IN  << I + (hi1 \div Limb), hi1 % Limb, lo1 % Limb >>

\* the next n bits of rem / p after the binary point, and what remains
RECURSIVE DivBits(_, _, _, _)
DivBits(rem, p, n, bits) ==
    IF n = 0 THEN << bits, rem >>
    ELSE DivBits((2 * rem) % p, p, n - 1, 2 * bits + ((2 * rem) \div p))

\* line 1171: 44100.0 / (double)refresh, for a quotient below 2^26
SamplesPerTick(r) ==
    LET p == r[1] * Pow2(IF r[2] > 0 THEN r[2] ELSE 0)
        n == 44100 * Pow2(IF r[2] < 0 THEN -r[2] ELSE 0)
        a == DivBits(n % p, p, 25, 0)
        b == DivBits(a[2], p, 25, 0)
        tail == IF b[2] = 0 THEN 0 ELSE IF 2 * b[2] < p THEN 1
                ELSE IF 2 * b[2] = p THEN 2 ELSE 3
    IN  RoundToDouble(n \div p, a[1], b[1], tail)

\* 44100 / refresh is at least 2^64
QuotientBeyond(r) ==
    \/ r[2] <= -73
    \/ r[2] <= -64 /\ r[1] <= 44100 * Pow2(-r[2] - 64)
    \/ r[2] > -64 /\ r[2] <= -58 /\ r[1] * Pow2(64 + r[2]) <= 44100

\* (mutation of TickSamples: the fraction is not carried over)
TickSamples_noResidue(fractional_samples, refresh) ==
    IF fractional_samples[1] = -1 \/ QuotientBeyond(EffectiveRefresh(refresh))
    THEN { [samples |-> u, fractional_samples |-> << -1, 0, 0 >>] : u \in {0, -1} }
    ELSE { [samples |-> SamplesPerTick(EffectiveRefresh(refresh))[1],
            fractional_samples |-> << 0, 0, 0 >>] }

\* lines 1171-1174: the outcomes of one tick, its samples and the fraction
\* carried over (samples_per_tick = 44100 / refresh is accumulated and the
\* integer part consumed).  The modelled rates give a quotient below 2^26 or
\* of at least 2^64.  Converting a double of 2^32 or more to uint32_t is
\* undefined: the builds give 0 (x86-64) or 0xFFFFFFFF (AArch64), and the
\* accumulator, less than 2^32 smaller after the subtraction, stays above
\* 2^32 for more ticks than a run has.
TickSamples(fractional_samples, refresh) ==
    LET r == EffectiveRefresh(refresh) IN
    IF fractional_samples[1] = -1 \/ QuotientBeyond(r)
    THEN { [samples |-> u, fractional_samples |-> << -1, 0, 0 >>] : u \in {0, -1} }
    ELSE LET spt == SamplesPerTick(r)
             lo == fractional_samples[3] + spt[3]
             hi == fractional_samples[2] + spt[2] + (lo \div Limb)
             acc == RoundToDouble(spt[1] + (hi \div Limb), hi % Limb, lo % Limb, 0)
         IN  { [samples |-> acc[1], fractional_samples |-> << 0, acc[2], acc[3] >>] }

\* lines 1184-1187: the position regression that counts as a loop
LoopDetected(end_order, prev_order) ==
    end_order < prev_order \/ (end_order = 0 /\ prev_order > 0)

\* the driver's locals before the loop (lines 1137-1149)
Driver_new(loop_once, order) ==
    [ loop_once          |-> loop_once,
      samples_generated  |-> 0,
      fractional_samples |-> << 0, 0, 0 >>,
      first_occurrence   |-> [o \in Orders |-> << >>],
      prev_order         |-> order ]

\* (mutation of RecordFirstOccurrence: every sighting is recorded)
RecordFirstOccurrence_latest(d, curr_order, write_count) ==
    [d EXCEPT !.first_occurrence[curr_order] =
                  IF d.loop_once THEN << d.samples_generated, write_count >> ELSE @,
              !.prev_order = curr_order]

\* lines 1158-1166: record the first sighting of the current position
RecordFirstOccurrence(d, curr_order, write_count) ==
    LET d1 == IF d.loop_once /\ d.first_occurrence[curr_order] = << >>
              THEN [d EXCEPT !.first_occurrence[curr_order] =
                                 << d.samples_generated, write_count >>]
              ELSE d
    IN  [d1 EXCEPT !.prev_order = curr_order]

\* (mutation of PublishLoop: the position regression is not asked for)
PublishLoop_noRegression(d, chip, end_order) ==
    IF d.loop_once /\ d.first_occurrence[end_order] # << >>
    THEN CVgmOpl_setLoopPoint(chip, d.first_occurrence[end_order][2],
                              d.first_occurrence[end_order][1])
    ELSE chip

\* lines 1180-1219: the chip after update() returned false with the player at
\* end_order
PublishLoop(d, chip, end_order) ==
    IF LoopDetected(end_order, d.prev_order) /\ d.loop_once
       /\ d.first_occurrence[end_order] # << >>
    THEN CVgmOpl_setLoopPoint(chip, d.first_occurrence[end_order][2],
                              d.first_occurrence[end_order][1])
    ELSE chip

\* ------------------------------------------------------------- the state
VARIABLES
    variant,   \* which capture chip this conversion uses: "passive" or "active"
    opl,       \* the CVgmOpl object
    opl3,      \* the VGMOPL3 object (its vgm_buffer is the caller's vector)
    gd3_tag,   \* the GD3Tag* of the conversion (NoTag until it is passed)
    vgm,       \* the bytes generateVgm returned / finalize left in the buffer
    pc,        \* where the conversion stands
    drv,       \* the locals of convert_native_opl
    order,     \* the player's position, player->getorder()
    calls,     \* history: every write call, its sample position and its fate
    advances,  \* history: the number of advanceSamples / accumulateDelay calls
    selected1, \* history: setchip(1) was called
    ticks,     \* history: the driver's ticks; the player reported finished
    delay,     \* one call of writeVgmDelay: its argument and its output
    varlen,    \* one call of readHMPVarLen / MIDIWriter::writeVarLen
    hmp,       \* one call of convertHMPtoMIDI: its input, locals and output
    gd3p,      \* one GD3Tag object through serialize and parse
    fm9        \* one FM9Writer object and the file it wrote

vars ==
    << variant, opl, opl3, gd3_tag, vgm, pc, drv, order, calls, advances,
       selected1, ticks, delay, varlen, hmp, gd3p, fm9 >>

\* the variables of the capture chips and their driver
chipVars ==
    << variant, opl, opl3, gd3_tag, vgm, drv, order, calls, advances,
       selected1, ticks, delay >>

\* the history record of one write call
CallRecord(chip, reg, val, pos, emitted) ==
    [chip |-> chip, reg |-> reg, val |-> val % U8, pos |-> pos, emitted |-> emitted]

NoTicks == [log |-> << >>, finished |-> FALSE, rates |-> << >>]
NoDelay == [samples |-> 0, buffer |-> << >>, written |-> FALSE]

\* the objects of the other components, before any of them is used
NoVarLen == [op |-> "none"]
NoHmp == [at |-> "none"]
NoGd3 == [at |-> "none"]
NoFm9 == [at |-> "none"]

Init ==
    /\ variant \in {"passive", "active"}
    /\ opl = CVgmOpl_new
    /\ gd3_tag \in IF variant = "active" THEN GD3Choices ELSE {NoTag}
    /\ opl3 = IF variant = "active" THEN VGMOPL3_new(gd3_tag) ELSE NoChip
    /\ vgm = << >>
    /\ pc = "capture"
    /\ drv = Driver_new(FALSE, 0)
    /\ order = 0
    /\ calls = << >>
    /\ advances = 0
    /\ selected1 = FALSE
    /\ ticks = NoTicks
    /\ varlen = NoVarLen /\ hmp = NoHmp /\ gd3p = NoGd3 /\ fm9 = NoFm9
    /\ delay = NoDelay

\* ------------------------------------------------- actions, passive chip
SetChip(n) ==
    /\ variant = "passive" /\ pc \in {"capture", "update"}
    /\ opl' = CVgmOpl_setchip(opl, n)
    /\ selected1' = (selected1 \/ n = 1)
    /\ UNCHANGED << varlen, hmp, gd3p, fm9 >>
    /\ UNCHANGED << variant, opl3, gd3_tag, vgm, pc, drv, order, calls, advances, ticks, delay >>

Write(reg, val) ==
    /\ variant = "passive" /\ pc \in {"capture", "update"}
    /\ Len(calls) < MaxCalls
    /\ opl' = CVgmOpl_write(opl, reg, val)
    /\ calls' = Append(calls,
           CallRecord(opl.currChip, reg, val,
                      opl.total_samples + opl.pending_samples,
                      Len(opl'.writes) > Len(opl.writes)))
    /\ UNCHANGED << varlen, hmp, gd3p, fm9 >>
    /\ UNCHANGED << variant, opl3, gd3_tag, vgm, pc, drv, order, advances, selected1, ticks, delay >>

AdvanceSamples(samples) ==
    /\ variant = "passive" /\ pc = "capture"
    /\ advances < MaxAdvances
    /\ opl' = CVgmOpl_advanceSamples(opl, samples)
    /\ advances' = advances + 1
    /\ UNCHANGED << varlen, hmp, gd3p, fm9 >>
    /\ UNCHANGED << variant, opl3, gd3_tag, vgm, pc, drv, order, calls, selected1, ticks, delay >>

GenerateVgm(tag) ==
    /\ variant = "passive" /\ pc = "capture"
    /\ LET r == CVgmOpl_generateVgm(opl, tag)
       IN  opl' = r.self /\ vgm' = r.vgm
    /\ gd3_tag' = tag
    /\ pc' = "done"
    /\ UNCHANGED << varlen, hmp, gd3p, fm9 >>
    /\ UNCHANGED << variant, opl3, drv, order, calls, advances, selected1, ticks, delay >>

\* -------------------------------------------------- actions, active chip
WriteReg(addr, data) ==
    /\ variant = "active" /\ pc = "capture"
    /\ Len(calls) < MaxCalls
    /\ opl3' = VGMOPL3_writeReg(opl3, addr, data)
    /\ calls' = Append(calls,
           CallRecord(0, addr, data,
                      opl3.total_samples + opl3.pending_samples,
                      Len(opl3'.vgm_buffer) > Len(opl3.vgm_buffer)))
    /\ UNCHANGED << varlen, hmp, gd3p, fm9 >>
    /\ UNCHANGED << variant, opl, gd3_tag, vgm, pc, drv, order, advances, selected1, ticks, delay >>

AccumulateDelay(samples) ==
    /\ variant = "active" /\ pc = "capture"
    /\ advances < MaxAdvances
    /\ opl3' = VGMOPL3_accumulateDelay(opl3, samples)
    /\ advances' = advances + 1
    /\ UNCHANGED << varlen, hmp, gd3p, fm9 >>
    /\ UNCHANGED << variant, opl, gd3_tag, vgm, pc, drv, order, calls, selected1, ticks, delay >>

Finalize ==
    /\ variant = "active" /\ pc = "capture"
    /\ opl3' = VGMOPL3_finalize(opl3)
    /\ vgm' = opl3'.vgm_buffer
    /\ pc' = "done"
    /\ UNCHANGED << varlen, hmp, gd3p, fm9 >>
    /\ UNCHANGED << variant, opl, gd3_tag, drv, order, calls, advances, selected1, ticks, delay >>

Next ==
    \/ \E n \in Chips : SetChip(n)
    \/ \E reg \in Regs, val \in Vals : Write(reg, val)
    \/ \E samples \in SampleSteps : AdvanceSamples(samples)
    \/ \E tag \in GD3Choices : GenerateVgm(tag)
    \/ \E addr \in Regs, data \in Vals : WriteReg(addr, data)
    \/ \E samples \in SampleSteps : AccumulateDelay(samples)
    \/ Finalize

Spec == Init /\ [][Next]_vars

\* ------------------------------------------- actions, the native-OPL driver
InitDriver ==
    /\ variant = "passive"
    /\ opl = CVgmOpl_new
    /\ gd3_tag = NoTag
    /\ opl3 = NoChip
    /\ vgm = << >>
    /\ pc = "poll"
    /\ order \in Orders
    /\ drv \in {Driver_new(loop_once, order) : loop_once \in BOOLEAN}
    /\ calls = << >>
    /\ advances = 0
    /\ selected1 = FALSE
    /\ ticks = NoTicks
    /\ varlen = NoVarLen /\ hmp = NoHmp /\ gd3p = NoGd3 /\ fm9 = NoFm9
    /\ delay = NoDelay

\* the top of the loop body, up to the call of player->update()
TickBegin ==
    /\ pc = "poll"
    /\ drv' = RecordFirstOccurrence(drv, order, Len(opl.writes))
    /\ ticks' = [ticks EXCEPT !.log = Append(@,
                    [order |-> order, samples |-> drv.samples_generated,
                     writes |-> Len(opl.writes)])]
    /\ pc' = "update"
    /\ UNCHANGED << varlen, hmp, gd3p, fm9 >>
    /\ UNCHANGED << variant, opl, opl3, gd3_tag, vgm, order, calls, advances, selected1, delay >>

\* update() returns still_playing with the player at new_order; the rest of
\* the loop body, and the loop condition
TickEnd(refresh, still_playing, new_order) ==
    /\ pc = "update"
    /\ \E t \in TickSamples(drv.fractional_samples, refresh) :
         LET chip == CVgmOpl_advanceSamples(opl, t.samples)
             d == [drv EXCEPT !.fractional_samples = t.fractional_samples,
                              !.samples_generated = U32Add(@, t.samples)]
         IN  /\ drv' = d
             /\ opl' = IF still_playing THEN chip ELSE PublishLoop(drv, chip, new_order)
             /\ pc' = IF still_playing /\ U32Less(d.samples_generated, max_samples)
                      THEN "poll" ELSE "finish"
    /\ order' = new_order
    /\ advances' = advances + 1
    /\ ticks' = [ticks EXCEPT !.finished = ~still_playing,
                              !.rates = Append(@, EffectiveRefresh(refresh))]
    /\ UNCHANGED << varlen, hmp, gd3p, fm9 >>
    /\ UNCHANGED << variant, opl3, gd3_tag, vgm, calls, selected1, delay >>

\* lines 1228-1251: the tag is built from the metadata, the VGM generated
DriverGenerate(tag) ==
    /\ pc = "finish"
    /\ LET r == CVgmOpl_generateVgm(opl, tag)
       IN  opl' = r.self /\ vgm' = r.vgm
    /\ gd3_tag' = tag
    /\ pc' = "done"
    /\ UNCHANGED << varlen, hmp, gd3p, fm9 >>
    /\ UNCHANGED << variant, opl3, drv, order, calls, advances, selected1, ticks, delay >>

NextDriver ==
    \/ TickBegin
    \/ \E reg \in DriverRegs, val \in Vals : Write(reg, val)
    \/ \E refresh \in Refreshes, still_playing \in BOOLEAN, new_order \in Orders :
           TickEnd(refresh, still_playing, new_order)
    \/ \E tag \in GD3Choices : DriverGenerate(tag)

SpecDriver == InitDriver /\ [][NextDriver]_vars

\* ------------------------------- actions, the timing of the driver loop
\* the rates of the players timed: 3500 Hz (12.6 samples a tick), 70 Hz, an
\* out-of-range rate and 2^-60 Hz
TimingRefreshes == {<<3500, 0>>, <<70, 0>>, <<0, 0>>, <<1, -60>>}
\* the ticks a timed run is followed for
MaxTicks == 6

InitTiming ==
    /\ variant = "passive"
    /\ opl = CVgmOpl_new
    /\ gd3_tag = NoTag
    /\ opl3 = NoChip
    /\ vgm = << >>
    /\ pc = "poll"
    /\ order = 0
    /\ drv \in {Driver_new(loop_once, 0) : loop_once \in BOOLEAN}
    /\ calls = << >>
    /\ advances = 0
    /\ selected1 = FALSE
    /\ ticks = NoTicks
    /\ varlen = NoVarLen /\ hmp = NoHmp /\ gd3p = NoGd3 /\ fm9 = NoFm9
    /\ delay = NoDelay

NextTiming ==
    \/ advances < MaxTicks /\ TickBegin
    \/ \E refresh \in TimingRefreshes, still_playing \in BOOLEAN :
           TickEnd(refresh, still_playing, 0)

SpecTiming == InitTiming /\ [][NextTiming]_vars

\* -------------------------------------------- writeVgmDelay on its own
MaxPlainDelay == 40
DelayInputs ==
    (1..MaxPlainDelay) \cup
    { 734, 735, 736, 881, 882, 883, 65534, 65535, 65536, 65537, 65551, 65552,
      66270, 66417, 131069, 131070, 131071, 131805, 131952, 196605, 196606 }

InitDelay ==
    /\ variant = "delay"
    /\ opl = CVgmOpl_new
    /\ gd3_tag = NoTag
    /\ opl3 = NoChip
    /\ vgm = << >>
    /\ pc = "delay"
    /\ drv = Driver_new(FALSE, 0)
    /\ order = 0
    /\ calls = << >>
    /\ advances = 0
    /\ selected1 = FALSE
    /\ ticks = NoTicks
    /\ varlen = NoVarLen /\ hmp = NoHmp /\ gd3p = NoGd3 /\ fm9 = NoFm9
    /\ delay \in {[samples |-> n, buffer |-> << >>, written |-> FALSE] : n \in DelayInputs}

WriteVgmDelay ==
    /\ pc = "delay" /\ ~delay.written
    /\ delay' = [delay EXCEPT !.buffer = writeVgmDelay(@, delay.samples),
                              !.written = TRUE]
    /\ UNCHANGED << varlen, hmp, gd3p, fm9 >>
    /\ UNCHANGED << variant, opl, opl3, gd3_tag, vgm, pc, drv, order, calls,
                    advances, selected1, ticks >>

NextDelay == WriteVgmDelay

SpecDelay == InitDelay /\ [][NextDelay]_vars

\* ------------------------------------------------- HMP: the variable lengths
\* A uint32_t whose bits matter is the set of its set bit positions (0..31):
\* | is the union, << moves the positions and drops those from 32 on.
BitsOf(n) == {j \in 0..30 : (n \div (2 ^ j)) % 2 = 1}

\* (data[pos] & 0x7F) << shift.  A shift count of 32 or more is undefined:
\* the builds either use the low five bits of the count or give 0.
ShiftLeft7(byte, shift) ==
    LET low == {j \in 0..6 : (byte \div (2 ^ j)) % 2 = 1}
        by(n) == {j + n : j \in low} \cap (0..31)
    IN  IF shift < 32 THEN {by(shift)} ELSE {by(shift % 32), {}}

\* readHMPVarLen, lines 108-122: the outcomes [value, pos] from pos on
RECURSIVE ReadHMPVarLenFrom(_, _, _, _, _)
ReadHMPVarLenFrom(data, size, pos, value, shift) ==
    IF pos < size /\ data[pos + 1] < 128
    THEN UNION { ReadHMPVarLenFrom(data, size, pos + 1, value \cup v, shift + 7) :
                   v \in ShiftLeft7(data[pos + 1], shift) }
    ELSE IF pos < size
    THEN { [value |-> value \cup v, pos |-> pos + 1] : v \in ShiftLeft7(data[pos + 1], shift) }
    ELSE { [value |-> value, pos |-> pos] }

\* (mutation of readHMPVarLen: the bytes are read as a standard MIDI
\* variable length, top bit set on all but the last, high bits first)
RECURSIVE ReadMidiVarLenFrom(_, _, _, _)
ReadMidiVarLenFrom(data, size, pos, value) ==
    IF pos >= size THEN [value |-> BitsOf(value), pos |-> pos]
    ELSE IF data[pos + 1] >= 128
    THEN ReadMidiVarLenFrom(data, size, pos + 1, (value % 16777216) * 128 + (data[pos + 1] % 128))
    ELSE [value |-> BitsOf((value % 16777216) * 128 + data[pos + 1]), pos |-> pos + 1]

readHMPVarLen_asMidi(data, size, pos) ==
    IF pos >= size THEN { [value |-> {}, pos |-> pos] }
    ELSE { ReadMidiVarLenFrom(data, size, pos, 0) }

\* (mutation of readHMPVarLen: the terminating byte is not accumulated)
RECURSIVE ReadHMPVarLenNoTerminal(_, _, _, _, _)
ReadHMPVarLenNoTerminal(data, size, pos, value, shift) ==
    IF pos < size /\ data[pos + 1] < 128
    THEN UNION { ReadHMPVarLenNoTerminal(data, size, pos + 1, value \cup v, shift + 7) :
                   v \in ShiftLeft7(data[pos + 1], shift) }
    ELSE IF pos < size THEN { [value |-> value, pos |-> pos + 1] }
    ELSE { [value |-> value, pos |-> pos] }

readHMPVarLen_noTerminal(data, size, pos) ==
    IF pos >= size THEN { [value |-> {}, pos |-> pos] }
    ELSE ReadHMPVarLenNoTerminal(data, size, pos, {}, 0)

\* readHMPVarLen: the set of its outcomes
readHMPVarLen(data, size, pos) ==
    IF pos >= size THEN { [value |-> {}, pos |-> pos] }
    ELSE ReadHMPVarLenFrom(data, size, pos, {}, 0)

\* MIDIWriter::writeVarLen keeps its uint32_t buffer as four bytes, lowest
\* first.  Lines 60-65: one more 7-bit group is pushed under the buffer
RECURSIVE VarLenPack(_, _)
VarLenPack(buffer, value) ==
    IF value \div 128 > 0
    THEN VarLenPack(<< 128 + ((value \div 128) % 128), buffer[1], buffer[2], buffer[3] >>,
                    value \div 128)
    ELSE buffer

\* lines 67-74: the bytes of the buffer are written, lowest first
RECURSIVE VarLenEmit(_, _)
VarLenEmit(data, buffer) ==
    IF buffer[1] >= 128
    THEN VarLenEmit(Append(data, buffer[1]), << buffer[2], buffer[3], buffer[4], 0 >>)
    ELSE Append(data, buffer[1])

\* MIDIWriter::writeVarLen
writeVarLen(data, value) ==
    VarLenEmit(data, VarLenPack(<< value % 128, 0, 0, 0 >>, value))

\* ------------------------------------------------- HMP: convertHMPtoMIDI
\* the uint32_t a set of bits stands for (the inputs keep bit 31 clear)
RECURSIVE ToInt(_)
ToInt(bits) ==
    IF bits = {} THEN 0
    ELSE LET j == CHOOSE x \in bits : TRUE
         IN  (IF j < 31 THEN 2 ^ j ELSE 0) + ToInt(bits \ {j})

writeU32BE(data, value) ==
    data \o << (value \div 16777216) % 256, (value \div 65536) % 256,
               (value \div 256) % 256, value % 256 >>

writeU16BE(data, value) ==
    data \o << (value \div 256) % 256, value % 256 >>

\* readU32LE at offset pos of data (the inputs keep the top byte below 0x80)
readU32LE(data, pos) ==
    data[pos + 1] + 256 * data[pos + 2] + 65536 * data[pos + 3] + 16777216 * data[pos + 4]

\* memcmp(&data[pos], bytes, Len(bytes)) == 0
SameBytes(data, pos, bytes) == SubSeq(data, pos + 1, pos + Len(bytes)) = bytes

HMP_SIGNATURE == << 72, 77, 73, 77, 73, 68, 73, 80 >>
HMP2_VERSION == << 48, 49, 51, 49, 57, 53 >>

\* convertHMPtoMIDI, lines 216-279: the header; ok is FALSE where the code
\* returns false
ParseHMPHeader(hmp_data, hmp_size) ==
    LET bad == [ok |-> FALSE, pos |-> 0, num_chunks |-> 0, tempo |-> 0] IN
    IF 8 > hmp_size THEN bad
    ELSE IF ~SameBytes(hmp_data, 0, HMP_SIGNATURE) THEN bad
    ELSE LET is_hmp2 == IF 8 + 6 <= hmp_size
                        THEN SameBytes(hmp_data, 8, HMP2_VERSION) ELSE FALSE
             p1 == IF is_hmp2 THEN 8 + 6 ELSE 8
             zero_count == IF is_hmp2 THEN 18 ELSE 24
             p2 == p1 + zero_count
             skip_bytes == IF is_hmp2 THEN 840 ELSE 712
         IN  IF p2 > hmp_size THEN bad
             ELSE IF p2 + 32 > hmp_size THEN bad
             ELSE IF p2 + 32 + skip_bytes > hmp_size THEN bad
             ELSE LET bpm == readU32LE(hmp_data, p2 + 24)
                  IN  [ok |-> TRUE,
                       pos |-> p2 + 32 + skip_bytes,
                       num_chunks |-> readU32LE(hmp_data, p2 + 16),
                       tempo |-> IF bpm = 0 THEN 500000 ELSE 60000000 \div bpm]

\* lines 286-290: the MThd chunk
WriteMThd(num_chunks) ==
    writeU16BE(writeU16BE(writeU16BE(writeU32BE(<< 77, 84, 104, 100 >>, 6), 1),
                          num_chunks % U16), 60)

\* lines 321-330: the tempo event at the head of the first track
TempoEvent(tempo) ==
    writeVarLen(<< >>, 0) \o
    << 255, 81, 3, (tempo \div 65536) % 256, (tempo \div 256) % 256, tempo % 256 >>

\* parseHMPEvent: the bytes consumed, should_write and the track afterwards
parseHMPEvent(data, size, pos, status, delta_time, midi) ==
    LET st_hi == status - (status % 16)
        fail == [bytes_consumed |-> 0, should_write |-> TRUE, midi |-> midi]
        emit(event_data, n) ==
            [bytes_consumed |-> n, should_write |-> TRUE,
             midi |-> Append(writeVarLen(midi, delta_time), status) \o event_data]
        skip(n) == [bytes_consumed |-> n, should_write |-> FALSE, midi |-> midi]
    IN  IF st_hi \in {128, 144, 160, 176, 224}
        THEN IF pos + 2 > size THEN fail
             ELSE emit(<< data[pos + 1] % 128, data[pos + 2] % 128 >>, 2)
        ELSE IF st_hi \in {192, 208}
        THEN IF pos + 1 > size THEN fail
             ELSE emit(<< data[pos + 1] % 128 >>, 1)
        ELSE IF st_hi = 240
        THEN IF status = 255
             THEN IF pos + 1 > size THEN fail
                  ELSE IF data[pos + 1] = 47 THEN emit(<< 47, 0 >>, 3)
                  ELSE IF data[pos + 1] = 81 THEN skip(6)
                  ELSE skip(2)
             ELSE skip(1)
        ELSE skip(1)

\* the locals of convertHMPtoMIDI at its entry; log is the history of the
\* loop iterations (what each one met and did), chunks that of the chunks
HmpStart(file) ==
    [ at |-> "header", hmp_data |-> file, hmp_size |-> Len(file),
      midi_out |-> << >>, result |-> "none",
      pos |-> 0, num_chunks |-> 0, tempo |-> 0, track_num |-> 0,
      chunk_length |-> 0, chunk_pos |-> 0, chunk_end |-> 0, track_data |-> << >>,
      delta |-> 0, absolute_time |-> 0, prev_time |-> 0, running_status |-> 0,
      has_end_marker |-> FALSE, log |-> << >>, chunks |-> << >> ]

Return(h, value) == [h EXCEPT !.at = "done", !.result = value]

\* lines 216-290 and the first test of the for loop
HmpHeaderStep(h) ==
    LET p == ParseHMPHeader(h.hmp_data, h.hmp_size)
    IN  IF ~p.ok THEN Return(h, "false")
        ELSE LET h1 == [h EXCEPT !.pos = p.pos, !.num_chunks = p.num_chunks,
                                 !.tempo = p.tempo,
                                 !.midi_out = @ \o WriteMThd(p.num_chunks)]
             IN  IF 0 < p.num_chunks THEN [h1 EXCEPT !.at = "chunk"]
                 ELSE Return(h1, "true")

\* lines 296-336: the chunk header and the locals of one track
HmpChunkStep(h) ==
    IF h.pos + 12 > h.hmp_size THEN Return(h, "true")
    ELSE LET chunk_length == readU32LE(h.hmp_data, h.pos + 4)
         IN  IF h.pos + chunk_length > h.hmp_size THEN Return(h, "false")
             ELSE [h EXCEPT !.at = "delta",
                            !.chunk_length = chunk_length,
                            !.chunk_pos = h.pos + 12,
                            !.chunk_end = h.pos + chunk_length,
                            !.track_data = IF h.track_num = 0
                                           THEN TempoEvent(h.tempo) ELSE << >>,
                            !.absolute_time = 0,
                            !.prev_time = 0,
                            !.running_status = 0,
                            !.has_end_marker = FALSE,
                            !.chunks = Append(@, [start |-> h.pos,
                                                  length |-> chunk_length,
                                                  out |-> Len(h.midi_out)])]

\* lines 339-340, 375-376, 413-414: one delta is read and added
HmpReadDelta(h, r) ==
    [h EXCEPT !.at = "event",
              !.chunk_pos = r.pos,
              !.delta = ToInt(r.value),
              !.absolute_time = @ + ToInt(r.value)]

\* line 342: the condition of the while loop
HmpLoopCondition(h) == h.chunk_pos < h.chunk_end /\ h.chunk_pos < h.hmp_size

HmpLog(h, kind, status, cc_num, cc_val) ==
    Append(h.log, [track |-> h.track_num, kind |-> kind, status |-> status,
                   cc_num |-> cc_num, cc_val |-> cc_val,
                   delta |-> h.delta, time |-> h.absolute_time])

\* (mutation of IsLoopMarker: controller 111 is not filtered)
IsLoopMarker_only110(cc_num, cc_val) == cc_num = 110 /\ cc_val > 127

\* line 369
IsLoopMarker(cc_num, cc_val) == (cc_num = 110 \/ cc_num = 111) /\ cc_val > 127

\* lines 344-408: one round of the while loop up to the read of the next
\* delta; at is "delta" when that read follows, "event" when the loop goes
\* on without it and "endchunk" after a break
HmpEventStep(h) ==
    LET byte == h.hmp_data[h.chunk_pos + 1] IN
    IF byte < 128 /\ h.running_status = 0
    THEN [h EXCEPT !.at = "endchunk", !.log = HmpLog(h, "nostatus", 0, 0, 0)]
    ELSE
    LET status == IF byte >= 128 THEN byte ELSE h.running_status
        cp == IF byte >= 128 THEN h.chunk_pos + 1 ELSE h.chunk_pos
        h1 == [h EXCEPT !.running_status = status, !.chunk_pos = cp]
        is_cc == status - (status % 16) = 176 /\ cp + 1 < h.hmp_size
        cc_num == IF is_cc THEN h.hmp_data[cp + 1] ELSE 0
        cc_val == IF is_cc THEN h.hmp_data[cp + 2] ELSE 0
    IN  IF is_cc /\ IsLoopMarker(cc_num, cc_val)
        THEN [h1 EXCEPT !.chunk_pos = cp + 2,
                        !.at = IF cp + 2 < h.chunk_end THEN "delta" ELSE "event",
                        !.log = HmpLog(h, "dropped", status, cc_num, cc_val)]
        ELSE
        LET ev == parseHMPEvent(h.hmp_data, h.hmp_size, cp, status,
                                h.absolute_time - h.prev_time, h.track_data)
            kind == IF ev.should_write THEN "written" ELSE "skipped"
            h3 == [h1 EXCEPT !.chunk_pos = cp + ev.bytes_consumed,
                             !.track_data = ev.midi,
                             !.prev_time = IF ev.should_write THEN h.absolute_time ELSE @,
                             !.log = HmpLog(h, kind, status, cc_num, cc_val)]
        IN  IF ev.bytes_consumed = 0
            THEN [h1 EXCEPT !.at = "endchunk", !.log = HmpLog(h, "failed", status, cc_num, cc_val)]
            ELSE IF status = 255 /\ h3.chunk_pos > ev.bytes_consumed
                    /\ h.hmp_data[h3.chunk_pos - ev.bytes_consumed + 1] = 47
            THEN [h3 EXCEPT !.at = "endchunk", !.has_end_marker = TRUE]
            ELSE [h3 EXCEPT !.at = IF h3.chunk_pos < h.chunk_end THEN "delta" ELSE "event"]

\* (mutation of CloseTrack: the end of track is appended to every track)
CloseTrack_always(h) == writeVarLen(h.track_data, 0) \o << 255, 47, 0 >>

\* lines 418-425: the end of track is added when the source had none
CloseTrack(h) ==
    IF ~h.has_end_marker
    THEN writeVarLen(h.track_data, 0) \o << 255, 47, 0 >>
    ELSE h.track_data

\* (mutation of NextChunkPos: the next chunk is looked for where parsing stopped)
NextChunkPos_whereStopped(h) == h.chunk_pos

\* line 433
NextChunkPos(h) == h.pos + h.chunk_length

\* lines 418-434 and the test of the for loop
HmpEndChunkStep(h) ==
    LET track_data == CloseTrack(h)
        h1 == [h EXCEPT !.midi_out =
                           writeU32BE(@ \o << 77, 84, 114, 107 >>, Len(track_data))
                               \o track_data,
                        !.pos = NextChunkPos(h),
                        !.track_num = @ + 1]
    IN  IF h1.track_num < h.num_chunks THEN [h1 EXCEPT !.at = "chunk"]
        ELSE Return(h1, "true")

\* ------------------------------------- actions, the variable lengths alone
\* the capture chips and their driver, unused by the other components
IdleChips ==
    /\ variant = "none"
    /\ opl = CVgmOpl_new
    /\ gd3_tag = NoTag
    /\ opl3 = NoChip
    /\ vgm = << >>
    /\ drv = Driver_new(FALSE, 0)
    /\ order = 0
    /\ calls = << >>
    /\ advances = 0
    /\ selected1 = FALSE
    /\ ticks = NoTicks
    /\ delay = NoDelay

MaxVarLenBytes == 6
MaxSmallValue == 130
\* continuation bytes (top bit clear) and terminating bytes (top bit set)
VarLenBytes == {0, 64, 127, 128, 255}
VarLenInputs == UNION { [1..k -> VarLenBytes] : k \in 1..MaxVarLenBytes }
VarLenValues ==
    (0..MaxSmallValue) \cup
    { 255, 8192, 16383, 16384, 2097151, 2097152, 268435455, 268435456, 2147483647 }

VarLenCall(op, n, data) ==
    [op |-> op, n |-> n, data |-> data, pos |-> 0, value |-> {}, stage |-> "start"]

InitVarLen ==
    /\ IdleChips
    /\ pc = "varlen"
    /\ varlen \in { VarLenCall("read", 0, d) : d \in VarLenInputs }
                  \cup { VarLenCall("roundtrip", n, << >>) : n \in VarLenValues }
    /\ hmp = NoHmp /\ gd3p = NoGd3 /\ fm9 = NoFm9

\* n is encoded by the standard-MIDI writer into an empty vector
WriteVarLen ==
    /\ pc = "varlen" /\ varlen.op = "roundtrip" /\ varlen.stage = "start"
    /\ varlen' = [varlen EXCEPT !.data = writeVarLen(<< >>, varlen.n),
                                !.stage = "encoded"]
    /\ UNCHANGED << chipVars, pc, hmp, gd3p, fm9 >>

\* the bytes are decoded by the HMP reader from position 0
ReadHMPVarLen ==
    /\ pc = "varlen"
    /\ \/ varlen.op = "read" /\ varlen.stage = "start"
       \/ varlen.stage = "encoded"
    /\ \E r \in readHMPVarLen(varlen.data, Len(varlen.data), 0) :
           varlen' = [varlen EXCEPT !.value = r.value, !.pos = r.pos, !.stage = "read"]
    /\ UNCHANGED << chipVars, pc, hmp, gd3p, fm9 >>

NextVarLen == WriteVarLen \/ ReadHMPVarLen

SpecVarLen == InitVarLen /\ [][NextVarLen]_vars

\* --------------------------------------------- actions, convertHMPtoMIDI
\* The HMP files of the modelled conversions.  An event of a chunk is a delta
\* (one terminating byte, 0x80 + ticks) and the bytes of the event.
HmpAtoms ==
    { << 128, 144, 60, 64 >>,            \* +0  note on
      << 130, 62, 64 >>,                 \* +2  two data bytes, no status byte
      << 133, 176, 110, 128 >>,          \* +5  controller 110, value 0x80
      << 129, 177, 111, 255 >>,          \* +1  controller 111, value 0xFF
      << 131, 176, 110, 64 >>,           \* +3  controller 110, value 0x40
      << 132, 177, 111, 127 >>,          \* +4  controller 111, value 0x7F
      << 129, 255, 47, 0 >>,             \* +1  end of track
      << 134, 255, 81, 3, 7, 161, 32 >>  \* +6  tempo
    }

MaxEvents == 3

RECURSIVE Concat(_)
Concat(ss) == IF ss = << >> THEN << >> ELSE ss[1] \o Concat(Tail(ss))

HmpBodies == { Concat(c) : c \in UNION { [1..k -> HmpAtoms] : k \in 0..MaxEvents } }

\* the header of an HMP file: signature, version, padding, the fields
\* (file length, chunk count at +16, BPM at +24, song time), padding
HmpHeaderBytes(is_hmp2, num_chunks, bpm) ==
    HMP_SIGNATURE
        \o (IF is_hmp2 THEN HMP2_VERSION \o Zeros(18) ELSE Zeros(24))
        \o LE32(0) \o Zeros(12) \o LE32(num_chunks) \o Zeros(4) \o LE32(bpm) \o LE32(0)
        \o Zeros(IF is_hmp2 THEN 840 ELSE 712)

\* a chunk: number, length (header included), track id, the track data less
\* its last cut bytes
HmpChunkBytes(num, body, cut) ==
    LET data == SubSeq(body, 1, Len(body) - cut)
    IN  LE32(num) \o LE32(12 + Len(data)) \o LE32(num) \o data

SecondBody == << 128, 144, 60, 64, 129, 255, 47, 0 >>

HmpFiles ==
    LET h1 == HmpHeaderBytes(FALSE, 1, 120)
        h2 == HmpHeaderBytes(FALSE, 2, 0)
    IN  { h1 \o HmpChunkBytes(0, b, 0) : b \in HmpBodies }
        \cup { h1 \o HmpChunkBytes(0, b, 1) : b \in HmpBodies \ {<< >>} }
        \cup { h2 \o HmpChunkBytes(0, b, 0) \o HmpChunkBytes(1, SecondBody, 0) : b \in HmpBodies }
        \cup { h2 \o HmpChunkBytes(0, b, 0) : b \in HmpBodies }
        \cup { HmpHeaderBytes(TRUE, 1, 120) \o HmpChunkBytes(0, SecondBody, 0),
               HmpHeaderBytes(FALSE, 0, 120),
               << 72, 77, 73, 77, 73, 68, 73, 81 >> \o Tail(Tail(Tail(Tail(Tail(Tail(Tail(Tail(h1)))))))),
               SubSeq(h1, 1, 5),
               SubSeq(h1, 1, 20),
               SubSeq(h1, 1, 40),
               SubSeq(h1, 1, 700),
               h1 \o LE32(0) \o LE32(100) \o LE32(0) \o SecondBody,
               h2 \o HmpChunkBytes(0, SecondBody, 0) \o << 1, 0, 0, 0, 20 >> }

InitHmp ==
    /\ IdleChips
    /\ pc = "hmp"
    /\ hmp \in { HmpStart(f) : f \in HmpFiles }
    /\ varlen = NoVarLen /\ gd3p = NoGd3 /\ fm9 = NoFm9

HmpParseHeader ==
    /\ pc = "hmp" /\ hmp.at = "header"
    /\ hmp' = HmpHeaderStep(hmp)
    /\ UNCHANGED << chipVars, pc, varlen, gd3p, fm9 >>

HmpBeginChunk ==
    /\ pc = "hmp" /\ hmp.at = "chunk"
    /\ hmp' = HmpChunkStep(hmp)
    /\ UNCHANGED << chipVars, pc, varlen, gd3p, fm9 >>

HmpDelta ==
    /\ pc = "hmp" /\ hmp.at = "delta"
    /\ \E r \in readHMPVarLen(hmp.hmp_data, hmp.hmp_size, hmp.chunk_pos) :
           hmp' = HmpReadDelta(hmp, r)
    /\ UNCHANGED << chipVars, pc, varlen, gd3p, fm9 >>

HmpParseEvent ==
    /\ pc = "hmp" /\ hmp.at = "event" /\ HmpLoopCondition(hmp)
    /\ hmp' = HmpEventStep(hmp)
    /\ UNCHANGED << chipVars, pc, varlen, gd3p, fm9 >>

HmpEndChunk ==
    /\ pc = "hmp"
    /\ hmp.at = "endchunk" \/ (hmp.at = "event" /\ ~HmpLoopCondition(hmp))
    /\ hmp' = HmpEndChunkStep(hmp)
    /\ UNCHANGED << chipVars, pc, varlen, gd3p, fm9 >>

NextHmp ==
    \/ HmpParseHeader
    \/ HmpBeginChunk
    \/ HmpDelta
    \/ HmpParseEvent
    \/ HmpEndChunk

SpecHmp == InitHmp /\ [][NextHmp]_vars

\* ------------------------------------------- actions, GD3Tag on its own
\* the strings of the modelled tags: empty, ASCII, 2-, 3- and 4-byte
\* sequences, and strings holding U+0000
Gd3Strings ==
    { << >>, << 65 >>, << 65, 66 >>, << 195, 169 >>, << 227, 129, 130 >>,
      << 240, 159, 142, 181 >>, << 65, 0, 66 >>, << 0 >> }

FullTag == [f \in DOMAIN EmptyTag |-> << 70 >>]

Gd3Tags ==
    { [base EXCEPT !["title_en"] = a, !["date"] = b, !["notes"] = c] :
          base \in {EmptyTag, FullTag}, a \in Gd3Strings, b \in Gd3Strings, c \in Gd3Strings }

\* GD3 data holding fewer than 11 strings: up to MaxPresent terminated
\* strings, then nothing, one stray byte or one string without terminator
MaxPresent == 3
Gd3Units == { << >>, << 65 >>, << 233, 12354 >> }
Gd3Tails == { << >>, << 7 >>, << 66, 0 >> }

Gd3Payloads ==
    { [present |-> Len(c) + (IF tail = << 66, 0 >> THEN 1 ELSE 0),
       payload |-> Concat([i \in 1..Len(c) |-> Utf16LE(c[i]) \o << 0, 0 >>]) \o tail] :
          c \in UNION { [1..k -> Gd3Units] : k \in 0..MaxPresent }, tail \in Gd3Tails }

Gd3Call(op, tag, self, present, data) ==
    [at |-> IF op = "roundtrip" THEN "start" ELSE "data", op |-> op, tag |-> tag,
     prior |-> self, self |-> self, present |-> present, data |-> data, result |-> FALSE]

InitGd3 ==
    /\ IdleChips
    /\ pc = "gd3"
    /\ gd3p \in { Gd3Call("roundtrip", t, self, 11, << >>) :
                      t \in Gd3Tags, self \in {EmptyTag, FullTag} }
                \cup { Gd3Call("parse", EmptyTag, self, p.present,
                               << 71, 100, 51, 32, 0, 1, 0, 0 >>
                                   \o LE32(Len(p.payload)) \o p.payload) :
                           p \in Gd3Payloads, self \in {EmptyTag, FullTag} }
    /\ varlen = NoVarLen /\ hmp = NoHmp /\ fm9 = NoFm9

\* tag.serialize()
Gd3Serialize ==
    /\ pc = "gd3" /\ gd3p.at = "start"
    /\ gd3p' = [gd3p EXCEPT !.at = "data", !.data = GD3_serialize(gd3p.tag)]
    /\ UNCHANGED << chipVars, pc, varlen, hmp, fm9 >>

\* self.parse(data, size)
Gd3Parse ==
    /\ pc = "gd3" /\ gd3p.at = "data"
    /\ LET r == GD3_parse(gd3p.self, gd3p.data, Len(gd3p.data))
       IN  gd3p' = [gd3p EXCEPT !.at = "parsed", !.self = r.tag, !.result = r.ok]
    /\ UNCHANGED << chipVars, pc, varlen, hmp, fm9 >>

NextGd3 == Gd3Serialize \/ Gd3Parse

SpecGd3 == InitGd3 /\ [][NextGd3]_vars

\* ------------------------------------------------------------ FM9Writer
FM9_FLAG_HAS_AUDIO == 1
FM9_FLAG_HAS_FX == 2
FM9_FLAG_HAS_IMAGE == 4
FM9_IMAGE_WIDTH == 100
FM9_IMAGE_HEIGHT == 100
FM9_IMAGE_SIZE == FM9_IMAGE_WIDTH * FM9_IMAGE_HEIGHT * 2
FM9_AUDIO_NONE == 0
FM9_AUDIO_WAV == 1
FM9_AUDIO_MP3 == 2
SRC_UNKNOWN == 0

\* mz_crc32 of the compression library, the CRC-32 of gzip, on the two
\* 16-bit halves << high, low >> of a uint32_t: the polynomial 0xEDB88320,
\* eight rounds for each byte
RECURSIVE XorInt(_, _)
XorInt(a, b) ==
    IF a = 0 THEN b
    ELSE IF b = 0 THEN a
    ELSE ((a + b) % 2) + 2 * XorInt(a \div 2, b \div 2)

\* n rounds: the register is shifted right and, when a one fell out, xored
\* with the polynomial
RECURSIVE CrcRounds(_, _)
CrcRounds(c, n) ==
    IF n = 0 THEN c
    ELSE IF c[2] % 2 = 1
    THEN CrcRounds(<< XorInt(c[1] \div 2, 60856),
                      XorInt((c[2] \div 2) + (c[1] % 2) * 32768, 33568) >>, n - 1)
    ELSE CrcRounds(<< c[1] \div 2, (c[2] \div 2) + (c[1] % 2) * 32768 >>, n - 1)

\* the bytes of data from the i-th on enter the register c (the test of c
\* has the register computed before the next byte is taken)
RECURSIVE CrcUpdate(_, _, _)
CrcUpdate(c, data, i) ==
    IF i > Len(data) \/ c = << >> THEN c
    ELSE CrcUpdate(CrcRounds(<< c[1], XorInt(c[2], data[i]) >>, 8), data, i + 1)

mz_crc32(data) ==
    LET c == CrcUpdate(<< 65535, 65535 >>, data, 1) IN << 65535 - c[1], 65535 - c[2] >>

\* the four bytes of a uint32_t given by its halves, lowest first
BytesOfHalves(c) == << c[2] % 256, c[2] \div 256, c[1] % 256, c[1] \div 256 >>

\* mz_deflate of the compression library, raw deflate: of the encodings a
\* deflate stream may have, the one stored block (data below 64 KiB)
mz_deflate(data) ==
    << 1, Len(data) % 256, Len(data) \div 256,
       255 - (Len(data) % 256), 255 - (Len(data) \div 256) >> \o data

\* gzipCompress (a build with the compression library)
gzipCompress(data) ==
    IF data = << >> THEN << >>
    ELSE << 31, 139, 8, 0, 0, 0, 0, 0, 0, 255 >>
             \o mz_deflate(data) \o BytesOfHalves(mz_crc32(data)) \o LE32(Len(data))

\* FM9Writer::FM9Writer and the bookkeeping of the modelled calls
FM9Writer_new ==
    [ at |-> "set", setters |-> 0,
      vgm_data_ |-> << >>, audio_data_ |-> << >>, fx_data_ |-> << >>,
      image_data_ |-> << >>, audio_format_ |-> FM9_AUDIO_NONE,
      source_format_ |-> SRC_UNKNOWN, out |-> << >>, ret |-> 0 ]

\* (mutation of buildHeader: the audio flag follows the audio format)
buildHeader_flagByFormat(self) ==
    << 70, 77, 57, 48, 1,
       (IF self.audio_format_ # FM9_AUDIO_NONE THEN FM9_FLAG_HAS_AUDIO ELSE 0)
           + (IF self.fx_data_ # << >> THEN FM9_FLAG_HAS_FX ELSE 0)
           + (IF self.image_data_ # << >> THEN FM9_FLAG_HAS_IMAGE ELSE 0),
       self.audio_format_, self.source_format_ >>
        \o LE32(0) \o LE32(Len(self.audio_data_)) \o LE32(24) \o LE32(Len(self.fx_data_))

\* FM9Writer::buildHeader, as the 24 bytes of the struct (little-endian host)
buildHeader(self) ==
    << 70, 77, 57, 48, 1,
       (IF self.audio_data_ # << >> THEN FM9_FLAG_HAS_AUDIO ELSE 0)
           + (IF self.fx_data_ # << >> THEN FM9_FLAG_HAS_FX ELSE 0)
           + (IF self.image_data_ # << >> THEN FM9_FLAG_HAS_IMAGE ELSE 0),
       self.audio_format_, self.source_format_ >>
        \o LE32(0) \o LE32(Len(self.audio_data_)) \o LE32(24) \o LE32(Len(self.fx_data_))

\* std::vector::resize: the first n elements kept, zeros added
Resize(data, n) == [i \in 1..n |-> IF i <= Len(data) THEN data[i] ELSE 0]

\* setFXFile, lines 186-195: an opening brace after white space only
RECURSIVE FoundBrace(_)
FoundBrace(data) ==
    IF data = << >> THEN FALSE
    ELSE IF data[1] = 123 THEN TRUE
    ELSE IF data[1] \in {32, 9, 10, 13} THEN FoundBrace(Tail(data))
    ELSE FALSE

\* ------------------------------------------------- actions, FM9Writer
MaxSetters == 4
Fm9Vgms == { << >>, << 86, 103, 109, 32, 102 >> }
Fm9Audios == { << >>, << 82, 73, 70, 70, 1, 2, 3, 4 >> }
Fm9FxFiles == { << >>, << 32, 123, 125 >>, << 120, 123 >> }
Fm9Images == { Zeros(FM9_IMAGE_SIZE), [i \in 1..FM9_IMAGE_SIZE |-> i % 251] }
\* what the file system does with a file to load: it cannot be opened, the
\* read fails after the resize, or it is read
LoadOutcomes == {"open fails", "read fails", "read"}

InitFm9 ==
    /\ IdleChips
    /\ pc = "fm9"
    /\ fm9 = FM9Writer_new
    /\ varlen = NoVarLen /\ hmp = NoHmp /\ gd3p = NoGd3

Setter(self) ==
    /\ pc = "fm9" /\ fm9.at = "set" /\ fm9.setters < MaxSetters
    /\ fm9' = [self EXCEPT !.setters = fm9.setters + 1]
    /\ UNCHANGED << chipVars, pc, varlen, hmp, gd3p >>

FM9_setVGMData ==
    \E vgm_data \in Fm9Vgms : Setter([fm9 EXCEPT !.vgm_data_ = vgm_data])

FM9_setSourceFormat ==
    \E fmt \in {1, 21, 32} : Setter([fm9 EXCEPT !.source_format_ = fmt])

FM9_setAudioData ==
    \E data \in Fm9Audios, format \in {FM9_AUDIO_NONE, FM9_AUDIO_WAV, FM9_AUDIO_MP3} :
        Setter([fm9 EXCEPT !.audio_data_ = data, !.audio_format_ = format])

\* setAudioFile: the format is detected from the path and the file, then the
\* file is loaded into audio_data_
FM9_setAudioFile ==
    \E detected \in {FM9_AUDIO_NONE, FM9_AUDIO_WAV, FM9_AUDIO_MP3},
       load \in LoadOutcomes, file \in Fm9Audios :
        Setter(IF detected = FM9_AUDIO_NONE
               THEN [fm9 EXCEPT !.audio_format_ = FM9_AUDIO_NONE]
               ELSE IF load = "open fails"
               THEN [fm9 EXCEPT !.audio_format_ = FM9_AUDIO_NONE]
               ELSE IF load = "read fails"
               THEN [fm9 EXCEPT !.audio_format_ = FM9_AUDIO_NONE,
                                !.audio_data_ = Resize(@, Len(file))]
               ELSE [fm9 EXCEPT !.audio_format_ = detected, !.audio_data_ = file])

FM9_setFXFile ==
    \E load \in LoadOutcomes, file \in Fm9FxFiles :
        Setter(IF load = "open fails" THEN fm9
               ELSE IF load = "read fails"
               THEN [fm9 EXCEPT !.fx_data_ = Resize(@, Len(file))]
               ELSE IF FoundBrace(file) THEN [fm9 EXCEPT !.fx_data_ = file]
               ELSE [fm9 EXCEPT !.fx_data_ = << >>])

\* setImageFile: the image is rejected, or processImage fills image_data_
\* with the FM9_IMAGE_SIZE bytes of the canvas
FM9_setImageFile ==
    \E loaded \in BOOLEAN, canvas \in Fm9Images :
        Setter(IF loaded THEN [fm9 EXCEPT !.image_data_ = canvas] ELSE fm9)

\* FM9Writer::write; the output file can be opened or not
FM9_write ==
    /\ pc \in {"fm9", "pass"} /\ fm9.at = "set"
    /\ \E opened \in BOOLEAN :
           LET compressed == gzipCompress(fm9.vgm_data_ \o buildHeader(fm9) \o fm9.fx_data_)
           IN  fm9' = IF fm9.vgm_data_ = << >> \/ compressed = << >> \/ ~opened
                      THEN [fm9 EXCEPT !.at = "written", !.ret = 0]
                      ELSE [fm9 EXCEPT !.at = "written",
                                       !.out = compressed \o fm9.audio_data_ \o fm9.image_data_,
                                       !.ret = Len(compressed) + Len(fm9.audio_data_)
                                                   + Len(fm9.image_data_)]
    /\ UNCHANGED << chipVars, pc, varlen, hmp, gd3p >>

NextFm9 ==
    \/ FM9_setVGMData
    \/ FM9_setSourceFormat
    \/ FM9_setAudioData
    \/ FM9_setAudioFile
    \/ FM9_setFXFile
    \/ FM9_setImageFile
    \/ FM9_write

SpecFm9 == InitFm9 /\ [][NextFm9]_vars

\* ------------------------------------------- convert_vgm_passthrough
\* gzipDecompress, lines 225-240: the offset after a string of the header
RECURSIVE SkipString(_, _)
SkipString(data, header_size) ==
    IF header_size < Len(data) /\ data[header_size + 1] # 0
    THEN SkipString(data, header_size + 1)
    ELSE header_size + 1

\* mz_inflate of the compression library with MZ_FINISH on a stored block:
\* the data when the block is whole and fits in avail_out bytes (input left
\* after the end of the stream is ignored), << -1 >> for any other return
mz_inflate(in, avail_out) ==
    IF Len(in) < 5 \/ in[1] # 1 THEN << -1 >>
    ELSE LET n == in[2] + 256 * in[3]
         IN  IF in[4] # 255 - in[2] \/ in[5] # 255 - in[3] THEN << -1 >>
             ELSE IF Len(in) < 5 + n \/ n > avail_out THEN << -1 >>
             ELSE SubSeq(in, 6, 5 + n)

\* gzipDecompress (a build with the compression library); orig_size is read
\* from the last four bytes of the data
gzipDecompress(data) ==
    LET size == Len(data) IN
    IF size < 18 THEN << >>
    ELSE IF data[1] # 31 \/ data[2] # 139 THEN << >>
    ELSE IF data[size] > 4 \/ (data[size] = 4 /\ data[size - 3] + data[size - 2] + data[size - 1] > 0)
    THEN << >>
    ELSE LET orig_size == data[size - 3] + 256 * data[size - 2] + 65536 * data[size - 1]
                              + 16777216 * data[size]
             flags == data[4]
             h1 == IF (flags \div 4) % 2 = 1
                   THEN IF 12 > size THEN -1 ELSE 12 + data[11] + 256 * data[12]
                   ELSE 10
             h2 == IF h1 >= 0 /\ (flags \div 8) % 2 = 1 THEN SkipString(data, h1) ELSE h1
             h3 == IF h2 >= 0 /\ (flags \div 16) % 2 = 1 THEN SkipString(data, h2) ELSE h2
             header_size == IF h3 >= 0 /\ (flags \div 2) % 2 = 1 THEN h3 + 2 ELSE h3
         IN  IF header_size < 0 \/ header_size >= size - 8 THEN << >>
             ELSE LET out == mz_inflate(SubSeq(data, header_size + 1, size - 8), orig_size)
                  IN  IF out = << -1 >> THEN << >>
                      ELSE [i \in 1..orig_size |-> IF i <= Len(out) THEN out[i] ELSE 0]

\* lines 1359-1370: the offset of the first "FM90" from offset i on, 0 if none
RECURSIVE FindFM9(_, _)
FindFM9(vgm_data, i) ==
    IF i >= Len(vgm_data) - 4 THEN 0
    ELSE IF SubSeq(vgm_data, i + 1, i + 4) = << 70, 77, 57, 48 >> THEN i
    ELSE FindFM9(vgm_data, i + 1)

\* convert_vgm_passthrough without CLI metadata, up to the call of
\* writeOutputFile: the value returned before it (0 when it is reached) and
\* the bytes handed to it
convert_vgm_passthrough(file_data) ==
    LET is_gzip == Len(file_data) >= 2 /\ file_data[1] = 31 /\ file_data[2] = 139
        vgm_data == IF is_gzip THEN gzipDecompress(file_data) ELSE file_data
    IN  IF is_gzip /\ vgm_data = << >> THEN [rc |-> 2, vgm_data |-> << >>]
        ELSE IF Len(vgm_data) < 64 \/ SubSeq(vgm_data, 1, 4) # << 86, 103, 109, 32 >>
        THEN [rc |-> 2, vgm_data |-> << >>]
        ELSE LET fm9_pos == FindFM9(vgm_data, 64)
             IN  [rc |-> 0,
                  vgm_data |-> IF fm9_pos > 0 THEN SubSeq(vgm_data, 1, fm9_pos)
                               ELSE vgm_data]

\* ----------------------------- actions, an FM9 file through the pass-through
\* VGM data: a 64-byte header and commands, among them bytes that read FM90
PassVgms ==
    { << 86, 103, 109, 32 >> \o Zeros(60) \o body :
          body \in { << 102 >>, << 94, 70, 77, 102 >>, << 90, 32, 1, 97, 70, 77, 102 >>,
                     << 94, 70, 77, 57, 48, 102 >> } }

\* the writer after its setters were called
InitPass ==
    /\ IdleChips
    /\ pc = "pass"
    /\ fm9 \in { [FM9Writer_new EXCEPT !.vgm_data_ = v, !.audio_data_ = a,
                                       !.audio_format_ = IF a = << >> THEN FM9_AUDIO_NONE
                                                         ELSE FM9_AUDIO_WAV,
                                       !.fx_data_ = fx, !.image_data_ = img] :
                     v \in PassVgms, a \in Fm9Audios, fx \in {<< >>, << 32, 123, 125 >>},
                     img \in {<< >>} \cup Fm9Images }
    /\ varlen = NoVarLen /\ hmp = NoHmp /\ gd3p = NoGd3

\* the file written is the input of the pass-through; handed holds the value
\* returned and the bytes handed to writeOutputFile
PassThrough ==
    /\ pc = "pass" /\ fm9.at = "written" /\ fm9.ret > 0
    /\ fm9' = [at |-> "reprocessed", vgm_data_ |-> fm9.vgm_data_, out |-> fm9.out,
               audio_data_ |-> fm9.audio_data_, image_data_ |-> fm9.image_data_,
               handed |-> convert_vgm_passthrough(fm9.out)]
    /\ UNCHANGED << chipVars, pc, varlen, hmp, gd3p >>

NextPass == FM9_write \/ PassThrough

SpecPass == InitPass /\ [][NextPass]_vars

\* ===================================================================
\* A VGM 1.51 player, written from the file format: it walks the commands from
\* file offset i and returns the register writes it performs, each with the
\* sample position it happens at, the offset of its command byte (at) and
\* the offset at which the waits in front of it begin (from).
RECURSIVE Play(_, _, _, _, _)
Play(v, i, pos, from, acc) ==
    IF i >= Len(v) THEN [ok |-> FALSE, events |-> acc, samples |-> pos, end |-> i]
    ELSE LET op == v[i + 1] IN
         IF op = 102
         THEN [ok |-> TRUE, events |-> acc, samples |-> pos, end |-> i]
         ELSE IF op = 97 /\ i + 2 < Len(v)
         THEN Play(v, i + 3, pos + v[i + 2] + 256 * v[i + 3], from, acc)
         ELSE IF op = 98 THEN Play(v, i + 1, pos + 735, from, acc)
         ELSE IF op = 99 THEN Play(v, i + 1, pos + 882, from, acc)
         ELSE IF op >= 112 /\ op <= 127 THEN Play(v, i + 1, pos + (op - 112) + 1, from, acc)
         ELSE IF op \in {90, 170, 94, 95} /\ i + 2 < Len(v)
         THEN Play(v, i + 3, pos, i + 3,
                   Append(acc, [pos |-> pos, op |-> op, reg |-> v[i + 2],
                                val |-> v[i + 3], at |-> i, from |-> from]))
         ELSE [ok |-> FALSE, events |-> acc, samples |-> pos, end |-> i]

\* the file offset of the first body byte according to the header
DataStart(v) == 52 + GetU32(v, 52)
Played == Play(vgm, DataStart(vgm), 0, DataStart(vgm), << >>)

\* the chip variant a player reads from the header clocks
FileType ==
    IF GetU32(vgm, 92) # 0 THEN "OPL3"
    ELSE IF GetU32(vgm, 80) >= 1073741824 THEN "DUAL_OPL2"
    ELSE "OPL2"

\* the opcode (chip or port) a captured write call addresses in a file of
\* the given variant
PortOf(type, c) ==
    IF type = "OPL2" THEN 90
    ELSE IF type = "DUAL_OPL2" THEN (IF c.chip = 0 THEN 90 ELSE 170)
    ELSE (IF c.reg >= 256 THEN 95 ELSE 94)

InBands(reg_low) ==
    (reg_low >= 160 /\ reg_low <= 191) \/ (reg_low >= 64 /\ reg_low <= 85)

EmittedCalls == SelectSeq(calls, LAMBDA c : c.emitted)

\* the number of emitted calls among the first k
EmittedUpTo(k) == Cardinality({j \in 1..k : calls[j].emitted})

SetMax(S) == CHOOSE x \in S : \A y \in S : y <= x
SetMin(S) == CHOOSE x \in S : \A y \in S : x <= y

\* the value the replayed chip holds in the register call k addresses, just
\* before call k: that of the last emitted call to the same port and low
\* address, the reset value 0 when there is none
HeldBefore(k) ==
    LET same == {j \in 1..(k - 1) :
                    /\ calls[j].emitted
                    /\ PortOf(FileType, calls[j]) = PortOf(FileType, calls[k])
                    /\ calls[j].reg % 256 = calls[k].reg % 256}
    IN  IF same = {} THEN 0 ELSE calls[SetMax(same)].val

\* the replay is the emitted calls, in call order, at their sample positions
ReplayIsEmittedCalls ==
    LET p == Played
        e == EmittedCalls
        type == FileType
    IN  /\ p.ok
        /\ Len(p.events) = Len(e)
        /\ \A j \in 1..Len(e) :
               /\ p.events[j].pos = e[j].pos
               /\ p.events[j].op = PortOf(type, e[j])
               /\ p.events[j].reg = e[j].reg % 256
               /\ p.events[j].val = e[j].val

\* C1: replaying the body of the VGM of the passive chip performs, in call
\* order, exactly the captured writes that were not redundant, each at the
\* sample position of its capture; a write is left out only when the
\* register it addresses on the emitted chip or port already holds its value.
C1_ReplayEqualsCapture ==
    (variant = "passive" /\ pc = "done") =>
        /\ ReplayIsEmittedCalls
        /\ \A k \in 1..Len(calls) :
               ~calls[k].emitted => HeldBefore(k) = calls[k].val

\* the replay side of C1 alone: what is buffered is replayed faithfully
C1_BufferedWritesReplayed ==
    (variant = "passive" /\ pc = "done") => ReplayIsEmittedCalls

\* the row of the state matrix the last call of the history is tracked in,
\* and the value written there by the call before it, -1 when there is none
SlotOf(c) == << IF c.reg >= 256 THEN 1 ELSE c.chip, c.reg % 256 >>
LastWrittenBefore(cs, k) ==
    LET same == {j \in 1..(k - 1) : SlotOf(cs[j]) = SlotOf(cs[k])}
    IN  IF same = {} THEN -1 ELSE cs[SetMax(same)].val

C3_BandWritesAlwaysEmitted ==
    variant = "passive" =>
        \A k \in 1..Len(calls) :
            InBands(calls[k].reg % 256) =>
                /\ calls[k].emitted
                /\ EmittedUpTo(k) <= Len(opl.writes)
                /\ opl.writes[EmittedUpTo(k)].reg = calls[k].reg
                /\ opl.writes[EmittedUpTo(k)].val = calls[k].val
                /\ pc = "done" =>
                       LET p == Played
                       IN  /\ p.ok
                           /\ EmittedUpTo(k) <= Len(p.events)
                           /\ p.events[EmittedUpTo(k)].reg = calls[k].reg % 256
                           /\ p.events[EmittedUpTo(k)].val = calls[k].val
                           /\ p.events[EmittedUpTo(k)].pos = calls[k].pos

\* C3 witness: a volume-band write repeating the value of the call before it
\* is in the generated file
C3_Witness ==
    /\ variant = "passive" /\ pc = "done" /\ Len(calls) >= 2
    /\ LET k == Len(calls)
       IN  /\ calls[k].reg = 64
           /\ calls[k - 1].reg = 64
           /\ calls[k - 1].chip = calls[k].chip
           /\ calls[k - 1].val = calls[k].val

\* C4: in the active chip every write to the key band or the volume band
\* produces a command in the VGM buffer, whatever value the register holds.
C4_ActiveBandWritesEmitted ==
    variant = "active" =>
        \A k \in 1..Len(calls) : InBands(calls[k].reg % 256) => calls[k].emitted

\* the bytes the delay rules give for n samples: 735 and 882 have a byte of
\* their own, 1..16 are 0x70 + (n - 1), up to 65535 is 0x61 lo hi, and above
\* that 0x61 0xFF 0xFF is followed by the bytes of n - 65535
RECURSIVE DelayBytes(_)
DelayBytes(n) ==
    IF n = 0 THEN << >>
    ELSE IF n = 735 THEN << 98 >>
    ELSE IF n = 882 THEN << 99 >>
    ELSE IF n >= 1 /\ n <= 16 THEN << 112 + (n - 1) >>
    ELSE IF n <= 65535 THEN << 97, n % 256, n \div 256 >>
    ELSE << 97, 255, 255 >> \o DelayBytes(n - 65535)

\* the samples a player waits over a sequence of wait commands (-1: not one)
RECURSIVE WaitedSamples(_)
WaitedSamples(b) ==
    IF b = << >> THEN 0
    ELSE LET rest(k, n) ==
                 LET r == WaitedSamples(SubSeq(b, k + 1, Len(b)))
                 IN  IF r < 0 THEN -1 ELSE n + r
         IN  IF b[1] = 97 /\ Len(b) >= 3 THEN rest(3, b[2] + 256 * b[3])
             ELSE IF b[1] = 98 THEN rest(1, 735)
             ELSE IF b[1] = 99 THEN rest(1, 882)
             ELSE IF b[1] >= 112 /\ b[1] <= 127 THEN rest(1, b[1] - 112 + 1)
             ELSE -1

\* C5: writeVgmDelay emits, for n >= 1 samples, the bytes of the delay rules
\* in their priority order, and the waits decoded from them sum to n.
C5_DelayEncoding ==
    delay.written =>
        /\ delay.buffer = DelayBytes(delay.samples)
        /\ WaitedSamples(delay.buffer) = delay.samples

\* C5 witness: a delay above 65535 whose remainder is the 735 shortcut
C5_Witness ==
    delay.written /\ delay.samples = 66270 /\ delay.buffer = << 97, 255, 255, 98 >>

\* C6: each buffered write is in the file as three bytes, the opcode chosen
\* by the detected variant: OPL2 0x5A; Dual-OPL2 0x5A with chip 0 selected
\* and 0xAA with chip 1; OPL3 0x5E below 0x100 and 0x5F from 0x100 on.
C6_CommandEncoding ==
    (variant = "passive" /\ pc = "done") =>
        LET p == Played IN
        /\ p.ok
        /\ Len(p.events) = Len(opl.writes)
        /\ \A k \in 1..Len(opl.writes) :
               LET w == opl.writes[k]
                   at == p.events[k].at
                   cmd == IF opl.detected_type = TYPE_OPL2 THEN 90
                          ELSE IF opl.detected_type = TYPE_DUAL_OPL2
                               THEN (IF w.chip = 0 THEN 90 ELSE 170)
                          ELSE (IF w.reg < 256 THEN 94 ELSE 95)
               IN  SubSeq(vgm, at + 1, at + 3) = << cmd, w.reg % 256, w.val >>

\* C6 witness: an OPL3 file holding a port-0 write made with chip 1 selected
\* and a port-1 write
C6_Witness ==
    /\ variant = "passive" /\ pc = "done" /\ opl.detected_type = TYPE_OPL3
    /\ Len(opl.writes) = 2
    /\ opl.writes[1].chip = 1 /\ opl.writes[1].reg < 256
    /\ opl.writes[2].reg >= 256

\* C7: after generateVgm the variant is OPL3 if a write addressed 0x100-0x1FF
\* or enabled OPL3 mode, else Dual-OPL2 if setchip(1) was called, else OPL2,
\* and the header carries the one clock of the variant.
C7_ChipDetection ==
    (variant = "passive" /\ pc = "done") =>
        LET opl3Used == \E k \in 1..Len(calls) :
                            \/ calls[k].reg >= 256 /\ calls[k].reg <= 511
                            \/ calls[k].reg = 261 /\ calls[k].val % 2 = 1
            type == IF opl3Used THEN TYPE_OPL3
                    ELSE IF selected1 THEN TYPE_DUAL_OPL2 ELSE TYPE_OPL2
        IN  /\ opl.detected_type = type
            /\ type = TYPE_OPL2 =>
                   GetU32(vgm, 80) = 3579545 /\ GetU32(vgm, 92) = 0
            /\ type = TYPE_DUAL_OPL2 =>
                   GetU32(vgm, 80) = 1073741824 + 3579545 /\ GetU32(vgm, 92) = 0
            /\ type = TYPE_OPL3 =>
                   GetU32(vgm, 80) = 0 /\ GetU32(vgm, 92) = 14318180

\* C7 witness: setchip(1) was called and a port-1 register written
C7_Witness ==
    /\ variant = "passive" /\ pc = "done" /\ selected1
    /\ \E k \in 1..Len(calls) : calls[k].reg >= 256

\* the samples of the delays in front of the buffered writes
RECURSIVE BufferedDelays(_)
BufferedDelays(ws) ==
    IF ws = << >> THEN 0 ELSE ws[1].delay_samples + BufferedDelays(Tail(ws))

\* the commands the constructor of VGMOPL3 leaves in the buffer
ActiveInitCommands == (Len(VGMOPL3_new(NoTag).vgm_buffer) - HEADER_SIZE_ACTIVE) \div 3

\* C8: in the file of either chip the header offsets are relative and valid:
\* the dword at 0x04 is the file size less 4; 0x34 plus its dword is where
\* the body starts (the body plays from there to the end marker, with every
\* emitted command and every emitted wait in it); with a tag, 0x14 plus its dword is the offset of
\* "Gd3 " and the byte before it is 0x66; with none, the dword at 0x14 is 0
\* and the file ends with 0x66.
C8_HeaderOffsets ==
    (pc = "done" /\ variant \in {"passive", "active"}) =>
        LET p == Played IN
        /\ GetU32(vgm, 4) = Len(vgm) - 4
        /\ p.ok
        /\ Len(p.events) =
               IF variant = "passive" THEN Len(opl.writes)
               ELSE ActiveInitCommands + Len(EmittedCalls)
        /\ p.samples =
               IF variant = "passive" THEN BufferedDelays(opl.writes)
               ELSE opl3.total_samples
        /\ IF gd3_tag # NoTag
           THEN LET g == 20 + GetU32(vgm, 20)
                IN  /\ g + 4 <= Len(vgm)
                    /\ SubSeq(vgm, g + 1, g + 4) = << 71, 100, 51, 32 >>
                    /\ vgm[g] = 102
                    /\ p.end = g - 1
           ELSE /\ GetU32(vgm, 20) = 0
                /\ vgm[Len(vgm)] = 102
                /\ p.end = Len(vgm) - 1

\* C8 witness: a file of the active chip with a tag and a delayed command
C8_Witness ==
    /\ variant = "active" /\ pc = "done" /\ gd3_tag # NoTag
    /\ \E k \in 1..Len(calls) : calls[k].emitted /\ calls[k].pos > 0

\* C9: after generateVgm the total-samples field at 0x18 is the sum of the
\* delays encoded in the body.
C9_TotalSamplesIsSumOfDelays ==
    (variant = "passive" /\ pc = "done") =>
        Played.ok /\ GetU32(vgm, 24) = Played.samples

\* the loop the driver detected, from the history: the player reported
\* finished at a position below the one of the last tick (or back at 0)
LoopSeen ==
    /\ ticks.finished /\ Len(ticks.log) > 0
    /\ LET prev == ticks.log[Len(ticks.log)].order
       IN  order < prev \/ (order = 0 /\ prev > 0)

\* the first sighting of position o: << samples, write index >> of the first
\* tick that began there, << >> when there is none or nothing is recorded
FirstSighting(o) ==
    LET seen == {k \in 1..Len(ticks.log) : ticks.log[k].order = o}
    IN  IF seen = {} \/ ~drv.loop_once THEN << >>
        ELSE << ticks.log[SetMin(seen)].samples, ticks.log[SetMin(seen)].writes >>

RECURSIVE CommandStarts(_, _)
CommandStarts(v, i) ==
    IF i >= Len(v) THEN {}
    ELSE LET op == v[i + 1] IN
         IF op = 102 THEN {}
         ELSE IF op \in {97, 90, 170, 94, 95} THEN {i} \cup CommandStarts(v, i + 3)
         ELSE IF op \in {98, 99} \/ (op >= 112 /\ op <= 127)
              THEN {i} \cup CommandStarts(v, i + 1)
         ELSE {}

\* C11: a VGM of the native-OPL path has both loop fields zero, or a loop
\* offset pointing at the start of a command of the body (from the data start
\* on, before the end marker) with loop samples no more than the total
\* samples; the fields are zero when the player finished without a position
\* regression, when the loop target was never recorded and when no write
\* follows the recorded write index.
C11_LoopFieldsValid ==
    pc = "done" =>
        LET p == Played
            off == GetU32(vgm, 28)
            target == off + 28
        IN  /\ p.ok
            /\ \/ off = 0 /\ GetU32(vgm, 32) = 0
               \/ /\ target >= DataStart(vgm)
                  /\ target < p.end
                  /\ target \in CommandStarts(vgm, DataStart(vgm))
                  /\ GetU32(vgm, 32) <= GetU32(vgm, 24)
            /\ (\/ ~LoopSeen
                \/ FirstSighting(order) = << >>
                \/ FirstSighting(order)[2] >= Len(opl.writes)) =>
                   off = 0 /\ GetU32(vgm, 32) = 0

\* C11 witness: the player finished without a regression after a position
\* with writes behind it was recorded, and the file has no loop
C11_Witness ==
    /\ pc = "done" /\ ticks.finished /\ ~LoopSeen /\ drv.loop_once
    /\ Len(opl.writes) >= 1 /\ Len(ticks.log) >= 2
    /\ GetU32(vgm, 28) = 0 /\ GetU32(vgm, 32) = 0

\* the index k of the first byte with the top bit set, -1 when there is none
TerminalIndex(data) ==
    LET T == {i \in 1..Len(data) : data[i] >= 128}
    IN  IF T = {} THEN -1 ELSE SetMin(T) - 1

\* the bits of the sum over i <= k of (b_i & 0x7F) shifted left by 7 * i
SumBits(data, k) ==
    UNION { {7 * i + j : j \in {x \in 0..6 : (data[i + 1] \div (2 ^ x)) % 2 = 1}} :
              i \in 0..k }

\* C12 as stated: on b0..bk, the first k bytes below 0x80 and bk the first
\* with the top bit set, readHMPVarLen returns the sum of the (b_i & 0x7F)
\* shifted left by 7 * i and advances the position by k + 1, for every k.
C12_VarLenSumAnyLength ==
    (varlen.op = "read" /\ varlen.stage = "read" /\ TerminalIndex(varlen.data) >= 0) =>
        LET k == TerminalIndex(varlen.data)
        IN  varlen.value = SumBits(varlen.data, k) /\ varlen.pos = k + 1

\* C12, amended: when bk is among the first five bytes (k <= 4, every shift
\* below 32) readHMPVarLen returns that sum modulo 2^32 and advances the
\* position by k + 1; [0x40,0x80] gives 64, [0x00,0x40,0x80] gives 8192,
\* [0x7F,0x80] gives 127 and [0x00,0xFF] gives 16256.
C12_VarLenSum ==
    (varlen.op = "read" /\ varlen.stage = "read"
        /\ TerminalIndex(varlen.data) >= 0 /\ TerminalIndex(varlen.data) <= 4) =>
        LET k == TerminalIndex(varlen.data)
        IN  /\ varlen.value = SumBits(varlen.data, k) \cap (0..31)
            /\ varlen.pos = k + 1
            /\ varlen.data = << 64, 128 >> => varlen.value = BitsOf(64)
            /\ varlen.data = << 0, 64, 128 >> => varlen.value = BitsOf(8192)
            /\ varlen.data = << 127, 128 >> => varlen.value = BitsOf(127)
            /\ varlen.data = << 0, 255 >> => varlen.value = BitsOf(16256)

\* C12 witness: [0x00, 0x40, 0x80] was decoded to 8192 over three bytes
C12_Witness ==
    /\ varlen.op = "read" /\ varlen.stage = "read"
    /\ varlen.data = << 0, 64, 128 >>
    /\ varlen.value = BitsOf(8192) /\ varlen.pos = 3

\* C13 as stated: for every n, the HMP reader applied to the bytes the
\* standard-MIDI writer gives for n does not return n.
C13_RoundTripNeverIdentity ==
    (varlen.op = "roundtrip" /\ varlen.stage = "read") =>
        varlen.value # BitsOf(varlen.n)

\* C13, amended: for every n >= 128 the HMP reader applied to the bytes the
\* standard-MIDI writer gives for n does not return n (it stops at the first
\* byte, which carries the top bit and the highest 7-bit group); for n <= 127
\* the one byte written is read back as n.
C13_RoundTripNotIdentityFrom128 ==
    (varlen.op = "roundtrip" /\ varlen.stage = "read") =>
        /\ varlen.n >= 128 => (varlen.value # BitsOf(varlen.n) /\ varlen.pos = 1)
        /\ varlen.n <= 127 => (varlen.value = BitsOf(varlen.n) /\ varlen.pos = 1)

\* C13 witness: 128 was written as 81 00 and read back as 1
C13_Witness ==
    /\ varlen.op = "roundtrip" /\ varlen.stage = "read" /\ varlen.n = 128
    /\ varlen.data = << 129, 0 >> /\ varlen.value = BitsOf(1)

\* ------------------------------------------- a Standard MIDI File reader
\* the big-endian value of the n bytes at offset pos
RECURSIVE BE(_, _, _)
BE(bytes, pos, n) ==
    IF n = 0 THEN 0 ELSE 256 * BE(bytes, pos, n - 1) + bytes[pos + n]

\* a MIDI variable-length quantity at offset pos; pos is -1 past the end
RECURSIVE SmfVarLen(_, _, _)
SmfVarLen(bytes, pos, value) ==
    IF pos >= Len(bytes) THEN [value |-> value, pos |-> -1]
    ELSE LET b == bytes[pos + 1]
         IN  IF b >= 128 THEN SmfVarLen(bytes, pos + 1, value * 128 + (b % 128))
             ELSE [value |-> value * 128 + b, pos |-> pos + 1]

Malformed == [delta |-> -1, status |-> 0, data |-> << >>]

\* the events of the track data from offset pos on, Malformed where they
\* cannot be read
RECURSIVE SmfEvents(_, _)
SmfEvents(bytes, pos) ==
    IF pos >= Len(bytes) THEN << >>
    ELSE LET d == SmfVarLen(bytes, pos, 0) IN
         IF d.pos < 0 \/ d.pos >= Len(bytes) THEN << Malformed >>
         ELSE LET status == bytes[d.pos + 1]
                  hi == status - (status % 16)
                  n == IF status = 255
                       THEN IF d.pos + 3 <= Len(bytes) THEN 2 + bytes[d.pos + 3] ELSE -1
                       ELSE IF hi \in {192, 208} THEN 1
                       ELSE IF hi \in {128, 144, 160, 176, 224} THEN 2
                       ELSE -1
              IN  IF n < 0 \/ d.pos + 1 + n > Len(bytes) THEN << Malformed >>
                  ELSE LET data == SubSeq(bytes, d.pos + 2, d.pos + 1 + n)
                       IN  IF status # 255 /\ \E i \in 1..n : data[i] >= 128
                           THEN << Malformed >>
                           ELSE << [delta |-> d.value, status |-> status, data |-> data] >>
                                    \o SmfEvents(bytes, d.pos + 1 + n)

\* the data of the chunks of the file from offset pos on, << -1 >> where no
\* whole MTrk chunk is found
RECURSIVE SmfTracks(_, _)
SmfTracks(midi, pos) ==
    IF pos >= Len(midi) THEN << >>
    ELSE IF pos + 8 > Len(midi) \/ SubSeq(midi, pos + 1, pos + 4) # << 77, 84, 114, 107 >>
    THEN << << -1 >> >>
    ELSE LET n == BE(midi, pos + 4, 4)
         IN  IF pos + 8 + n > Len(midi) THEN << << -1 >> >>
             ELSE << SubSeq(midi, pos + 9, pos + 8 + n) >> \o SmfTracks(midi, pos + 8 + n)

\* the tracks written so far, each as its events
TracksOut == 
    LET tracks == SmfTracks(hmp.midi_out, 14)
    IN  [t \in 1..Len(tracks) |-> SmfEvents(tracks[t], 0)]

\* the rounds of the while loop over chunk t (from 1), in order
RoundsOf(t) == SelectSeq(hmp.log, LAMBDA e : e.track = t - 1)

IsControlChange(e) == e.status - (e.status % 16) = 176

RECURSIVE SumDeltas(_, _, _)
SumDeltas(rounds, from, to) ==
    IF from > to THEN 0 ELSE rounds[from].delta + SumDeltas(rounds, from + 1, to)

\* the indices of the rounds that wrote an event, in order
RECURSIVE WrittenRounds(_, _)
WrittenRounds(rounds, i) ==
    IF i > Len(rounds) THEN << >>
    ELSE (IF rounds[i].kind = "written" THEN << i >> ELSE << >>)
             \o WrittenRounds(rounds, i + 1)

\* the events of track t that come from the source: all but the tempo at the
\* head of the first track and the end of track added where the source had none
SourceEventsOut(tracks, t, count) ==
    SubSeq(IF t = 1 THEN Tail(tracks[t]) ELSE tracks[t], 1, count)

\* C14: a control change for controller 110 or 111 with a value above 0x7F
\* is never written and one with a value of at most 0x7F is written; the
\* events of a written track are those of the rounds that wrote, in order,
\* and the delta of each is the sum of the source deltas read since the
\* previous written event, those around the dropped events included.
C14_LoopMarkersDropped ==
    (pc = "hmp" /\ hmp.at # "header") =>
        LET tracks == TracksOut IN
        \A t \in 1..Len(tracks) :
            LET rounds == RoundsOf(t)
                w == WrittenRounds(rounds, 1)
                out == SourceEventsOut(tracks, t, Len(w))
            IN  /\ \A i \in 1..Len(rounds) :
                       (IsControlChange(rounds[i]) /\ rounds[i].cc_num \in {110, 111}) =>
                           IF rounds[i].cc_val > 127
                           THEN rounds[i].kind = "dropped"
                           ELSE rounds[i].kind = "written"
                /\ Len(out) = Len(w)
                /\ Len(tracks[t]) = (IF t = 1 THEN 1 ELSE 0) + Len(w)
                       + (IF w # << >> /\ rounds[w[Len(w)]].status = 255 THEN 0 ELSE 1)
                /\ \A j \in 1..Len(w) :
                       LET e == rounds[w[j]]
                       IN  /\ out[j].status = e.status
                           /\ IsControlChange(e) => out[j].data = << e.cc_num, e.cc_val % 128 >>
                           /\ out[j].delta =
                                  SumDeltas(rounds, IF j = 1 THEN 1 ELSE w[j - 1] + 1, w[j])

\* C14 witness: controller 110 with value 0x80 (delta 5) was dropped and the
\* controller 111 with value 0x7F that follows it (delta 4) was written with
\* delta 9
C14_Witness ==
    /\ pc = "hmp" /\ hmp.at = "done" /\ hmp.result = "true"
    /\ \E i \in 1..Len(hmp.log) :
           /\ hmp.log[i].kind = "dropped" /\ hmp.log[i].cc_num = 110
           /\ hmp.log[i].cc_val = 128 /\ hmp.log[i].delta = 5
    /\ LET tracks == TracksOut
       IN  /\ Len(tracks) = 1
           /\ \E j \in 1..Len(tracks[1]) :
                  tracks[1][j] = [delta |-> 9, status |-> 177, data |-> << 111, 127 >>]

\* C15: whenever convertHMPtoMIDI returns true the output is an MThd chunk
\* with format 1 and division 60 whose ntrks field is the chunk count of the
\* HMP header, followed by exactly that many MTrk chunks.
C15_HeaderAndTracks ==
    (pc = "hmp" /\ hmp.at = "done" /\ hmp.result = "true") =>
        LET midi == hmp.midi_out
            chunk_count == ParseHMPHeader(hmp.hmp_data, hmp.hmp_size).num_chunks
            tracks == SmfTracks(midi, 14)
        IN  /\ Len(midi) >= 14
            /\ SubSeq(midi, 1, 4) = << 77, 84, 104, 100 >>
            /\ BE(midi, 4, 4) = 6
            /\ BE(midi, 8, 2) = 1
            /\ BE(midi, 10, 2) = chunk_count
            /\ BE(midi, 12, 2) = 60
            /\ Len(tracks) = chunk_count
            /\ \A t \in 1..Len(tracks) : tracks[t] # << -1 >>

IsEndOfTrack(e) == e.status = 255 /\ e.data = << 47, 0 >>

\* C16: every MTrk chunk written ends with the bytes FF 2F 00 and holds
\* exactly one end-of-track event, its last, whether the source chunk had its
\* own end of track, ended without one or was cut short by a parse failure.
C16_OneEndOfTrack ==
    pc = "hmp" =>
        LET tracks == SmfTracks(hmp.midi_out, 14) IN
        \A t \in 1..Len(tracks) :
            LET bytes == tracks[t]
                events == SmfEvents(bytes, 0)
            IN  /\ Len(bytes) >= 3
                /\ SubSeq(bytes, Len(bytes) - 2, Len(bytes)) = << 255, 47, 0 >>
                /\ \A i \in 1..Len(events) : events[i] # Malformed
                /\ { i \in 1..Len(events) : IsEndOfTrack(events[i]) } = { Len(events) }

\* C16 witness: of two chunks converted, the first was cut short by a data
\* byte with no running status and the second had its own end of track
C16_Witness ==
    /\ pc = "hmp" /\ hmp.at = "done" /\ hmp.result = "true"
    /\ Len(SmfTracks(hmp.midi_out, 14)) = 2
    /\ \E i \in 1..Len(hmp.log) :
           /\ hmp.log[i].track = 0 /\ hmp.log[i].kind = "nostatus"
    /\ \E i \in 1..Len(hmp.log) :
           /\ hmp.log[i].track = 1 /\ hmp.log[i].kind = "written"
           /\ hmp.log[i].status = 255

\* the HMP file header is bad or truncated: the signature is absent or the
\* file ends before the end of the header (776 bytes, 904 for version 013195)
BadHeader(file) ==
    \/ Len(file) < 8
    \/ SubSeq(file, 1, 8) # << 72, 77, 73, 77, 73, 68, 73, 80 >>
    \/ Len(file) < (IF Len(file) >= 14 /\ SubSeq(file, 9, 14) = << 48, 49, 51, 49, 57, 53 >>
                    THEN 904 ELSE 776)

HeaderEnd(file) ==
    IF SubSeq(file, 9, 14) = << 48, 49, 51, 49, 57, 53 >> THEN 904 ELSE 776

\* the offset of the header of chunk i (from 1): each chunk starts where the
\* one before it started plus that one's chunk-length
RECURSIVE ChunkStart(_, _)
ChunkStart(file, i) ==
    IF i = 1 THEN HeaderEnd(file)
    ELSE LET before == ChunkStart(file, i - 1)
         IN  before + file[before + 5] + 256 * file[before + 6]
                    + 65536 * file[before + 7] + 16777216 * file[before + 8]

ParseFailure(e) == e.kind \in {"failed", "nostatus"}

\* C17: a parse failure on one event (missing data bytes, or a data byte
\* with no running status) ends only the current track: it is the last round
\* of its chunk, the track written holds every event written before it and
\* the end of track, the next chunk is read at the chunk start plus the
\* chunk-length and the failure does not make the function return false; a
\* bad or truncated file header makes the function return false.
C17_ParseFailureEndsTrackOnly ==
    (pc = "hmp" /\ hmp.at # "header") =>
        LET file == hmp.hmp_data
            tracks == TracksOut
        IN  /\ BadHeader(file) <=> (hmp.at = "done" /\ hmp.midi_out = << >>)
            /\ BadHeader(file) => hmp.result = "false"
            /\ \A i \in 1..Len(hmp.chunks) : hmp.chunks[i].start = ChunkStart(file, i)
            /\ (hmp.at \in {"chunk", "done"} /\ hmp.track_num > 0
                   /\ hmp.track_num = Len(hmp.chunks)) =>
                   hmp.pos = ChunkStart(file, hmp.track_num + 1)
            /\ \A i \in 1..Len(hmp.log) :
                   ParseFailure(hmp.log[i]) =>
                       LET t == hmp.log[i].track + 1
                           rounds == RoundsOf(t)
                           w == WrittenRounds(rounds, 1)
                       IN  /\ i < Len(hmp.log) => hmp.log[i + 1].track = t
                           /\ ParseFailure(rounds[Len(rounds)])
                           /\ \A j \in 1..(Len(rounds) - 1) : ~ParseFailure(rounds[j])
                           /\ t <= Len(tracks) =>
                                  /\ Len(tracks[t]) = (IF t = 1 THEN 1 ELSE 0) + Len(w) + 1
                                  /\ \A j \in 1..Len(w) :
                                         SourceEventsOut(tracks, t, Len(w))[j].status
                                             = rounds[w[j]].status
                                  /\ IsEndOfTrack(tracks[t][Len(tracks[t])])
                           /\ (hmp.at = "done" /\ hmp.result = "false") =>
                                  \E c \in 1..(Len(hmp.chunks) + 1) :
                                      /\ ChunkStart(file, c) + 12 <= Len(file)
                                      /\ ChunkStart(file, c + 1) > Len(file)

\* C17 witness: the first of two chunks was ended by a data byte with no
\* running status, its track holds the tempo and the end of track, and the
\* second chunk was read from the first one's start plus its length
C17_Witness ==
    /\ pc = "hmp" /\ hmp.at = "done" /\ hmp.result = "true"
    /\ Len(hmp.chunks) = 2
    /\ hmp.chunks[1].length > 12
    /\ hmp.chunks[2].start = hmp.chunks[1].start + hmp.chunks[1].length
    /\ hmp.log[1].kind = "nostatus"
    /\ Len(TracksOut[1]) = 2
    /\ Len(TracksOut[2]) = 2

\* C17 (second case): the last event of the only chunk lacked a data byte;
\* the two events written before it are in the track
C17_WitnessKept ==
    /\ pc = "hmp" /\ hmp.at = "done" /\ hmp.result = "true"
    /\ Len(hmp.log) = 3 /\ hmp.log[3].kind = "failed"
    /\ hmp.log[1].kind = "written" /\ hmp.log[2].kind = "written"
    /\ Len(TracksOut[1]) = 4

HoldsNul(str) == \E i \in 1..Len(str) : str[i] = 0

\* C18 as stated: for every 11-tuple of valid UTF-8 strings, parse applied to
\* the output of serialize returns true and yields the same 11 strings in the
\* same fields.
C18_RoundTripAnyStrings ==
    (pc = "gd3" /\ gd3p.op = "roundtrip" /\ gd3p.at = "parsed") =>
        gd3p.result /\ gd3p.self = gd3p.tag

\* C18, amended: for every 11-tuple of valid UTF-8 strings none of which
\* holds U+0000, parse applied to the output of serialize returns true and
\* yields the same 11 strings in the same fields; parse returns true for the
\* other tuples as well.
C18_RoundTrip ==
    (pc = "gd3" /\ gd3p.op = "roundtrip" /\ gd3p.at = "parsed") =>
        /\ gd3p.result
        /\ (\A k \in 1..Len(GD3Fields) : ~HoldsNul(gd3p.tag[GD3Fields[k]])) =>
               \A k \in 1..Len(GD3Fields) :
                   gd3p.self[GD3Fields[k]] = gd3p.tag[GD3Fields[k]]

\* C18 witness: a tag with a 4-byte sequence in the title, a 3-byte sequence
\* in the date and a 2-byte sequence in the notes was serialized and parsed
\* back into an object that held other strings
C18_Witness ==
    /\ pc = "gd3" /\ gd3p.op = "roundtrip" /\ gd3p.at = "parsed" /\ gd3p.result
    /\ gd3p.prior = FullTag
    /\ gd3p.tag = [EmptyTag EXCEPT !["title_en"] = << 240, 159, 142, 181 >>,
                                   !["date"] = << 227, 129, 130 >>,
                                   !["notes"] = << 195, 169 >>]
    /\ gd3p.self = gd3p.tag

\* C19: when parse returns true on data holding fewer than 11 strings, every
\* field after the last one present in the data is empty afterwards, for any
\* prior contents of the tag object.
C19_MissingFieldsEmpty ==
    (pc = "gd3" /\ gd3p.op = "parse" /\ gd3p.at = "parsed" /\ gd3p.result) =>
        \A k \in (gd3p.present + 1)..Len(GD3Fields) : gd3p.self[GD3Fields[k]] = << >>

\* ------------------------------------------------------ an FM9 reader
\* the gzip member at the head of file: ok, the data of its stored block and
\* the offset of its end
Gunzip(file) ==
    LET bad == [ok |-> FALSE, data |-> << >>, end |-> 0] IN
    IF Len(file) < 10 + 5 + 8 THEN bad
    ELSE IF SubSeq(file, 1, 4) # << 31, 139, 8, 0 >> \/ file[11] # 1 THEN bad
    ELSE LET n == file[12] + 256 * file[13]
         IN  IF file[14] # 255 - file[12] \/ file[15] # 255 - file[13] THEN bad
             ELSE IF Len(file) < 15 + n + 8 THEN bad
             ELSE LET data == SubSeq(file, 16, 15 + n)
                  IN  IF SubSeq(file, 16 + n, 19 + n) # BytesOfHalves(mz_crc32(data))
                         \/ SubSeq(file, 20 + n, 23 + n) # LE32(n)
                      THEN bad
                      ELSE [ok |-> TRUE, data |-> data, end |-> 23 + n]

\* the little-endian value of the 4 bytes at offset pos
U32At(bytes, pos) ==
    bytes[pos + 1] + 256 * bytes[pos + 2] + 65536 * bytes[pos + 3]
        + 16777216 * bytes[pos + 4]

HeaderWritten ==
    LET g == Gunzip(fm9.out)
    IN  SubSeq(g.data, Len(fm9.vgm_data_) + 1, Len(fm9.vgm_data_) + 24)

\* C21: in the FM9 header built by buildHeader the fx-offset field is 24
\* when FX data is present and 0 when no FX data is present.
C21_FxOffset ==
    (pc = "fm9" /\ fm9.at = "written" /\ fm9.ret > 0) =>
        U32At(HeaderWritten, 16) = (IF fm9.fx_data_ # << >> THEN 24 ELSE 0)

\* C22: re-processing an FM9 file through the pass-through without CLI
\* metadata recovers the VGM embedded: for every VGM V wrapped by FM9Writer
\* the bytes handed to the writer are V.
C22_PassThroughRecoversVgm ==
    (pc = "pass" /\ fm9.at = "reprocessed") =>
        fm9.handed.rc = 0 /\ fm9.handed.vgm_data = fm9.vgm_data_

\* C22, the part that holds: a file with no audio and no image, whose VGM
\* does not hold the bytes FM90 from offset 64 on, gives back its VGM
C22_PlainFileRecovered ==
    (pc = "pass" /\ fm9.at = "reprocessed"
        /\ fm9.audio_data_ = << >> /\ fm9.image_data_ = << >>
        /\ FindFM9(fm9.vgm_data_ \o << 0, 0, 0, 0, 0 >>, 64) = 0) =>
        fm9.handed.rc = 0 /\ fm9.handed.vgm_data = fm9.vgm_data_

\* the value of the last register command of buffer for address a (its
\* commands are all three bytes long: 0x5E/0x5F aa dd and 0x61 lo hi), from
\* the command at offset i back to the first one; dflt if there is none
RECURSIVE LastCommandFor(_, _, _, _)
LastCommandFor(buffer, a, i, dflt) ==
    IF i < HEADER_SIZE_ACTIVE THEN dflt
    ELSE IF buffer[i + 1] = (IF (a \div 256) % 2 = 1 THEN CMD_OPL3_PORT1 ELSE CMD_OPL3_PORT0)
            /\ buffer[i + 2] = a % 256
         THEN buffer[i + 3]
         ELSE LastCommandFor(buffer, a, i - 3, dflt)

\* C23: in the active chip, after any writeReg and accumulateDelay calls, a
\* writeReg changes the state table exactly when it appends a command to the
\* buffer, and for every address the table holds the value of the last
\* command emitted for it (the initial value 0 if there is none).
C23_StateTableIsLastEmitted ==
    /\ []((variant = "active" /\ pc = "capture") =>
            \A a \in Addrs :
                opl3.reg_state[a] =
                    LastCommandFor(opl3.vgm_buffer, a, Len(opl3.vgm_buffer) - 3, 0))
    /\ [][(variant = "active" /\ pc = "capture" /\ calls' # calls) =>
            ((opl3'.reg_state # opl3.reg_state)
                <=> (Len(opl3'.vgm_buffer) > Len(opl3.vgm_buffer)))]_vars

\* a capture with delays in which one writeReg was emitted and one was not
C23_Witness ==
    /\ variant = "active" /\ pc = "capture"
    /\ opl3.total_samples > 0
    /\ \E i, j \in 1..Len(calls) : calls[i].emitted /\ ~calls[j].emitted

\* C24: in both capture chips the first write to a register address within
\* a capture session is emitted, whatever its value (0 included); only a
\* register already written is suppressed.  (For the active chip the
\* addresses its constructor writes count as already written.)
C24_FirstWriteEmitted ==
    pc = "capture" =>
        \A i \in 1..Len(calls) :
            ( /\ \A j \in 1..(i - 1) :
                     ~(calls[j].chip = calls[i].chip /\ calls[j].reg = calls[i].reg)
              /\ variant = "active" =>
                     \A k \in 1..Len(InitSequence) : InitSequence[k][1] # calls[i].reg )
            => calls[i].emitted

\* C24 for the passive chip alone, an address being a slot of reg_written_:
\* the first write to a slot is emitted
C24_PassiveFirstWriteEmitted ==
    (pc = "capture" /\ variant = "passive") =>
        \A i \in 1..Len(calls) :
            (\A j \in 1..(i - 1) :
                 ~( (IF calls[j].reg >= 256 THEN 1 ELSE calls[j].chip)
                        = (IF calls[i].reg >= 256 THEN 1 ELSE calls[i].chip)
                    /\ calls[j].reg % 256 = calls[i].reg % 256 ))
            => calls[i].emitted

\* C25: the first-sighting table of the driver loop is insert-only: a tick,
\* before the player is advanced, records the current position as (samples
\* generated so far, write count so far) if and only if it has no entry yet
\* (and loops are asked for), and no entry is ever overwritten.  A loop point
\* is published to the chip only when the player reports finished at a
\* position strictly below the one held before that tick, the pair published
\* is the table entry of the end position, and it is published at most once.
C25_FirstSightingInsertOnly ==
    /\ [][\A o \in Orders :
              drv.first_occurrence[o] # << >> =>
                  drv'.first_occurrence[o] = drv.first_occurrence[o]]_vars
    /\ [][(pc = "poll" /\ pc' = "update") =>
              /\ opl' = opl /\ order' = order
              /\ \A o \in Orders :
                     drv'.first_occurrence[o] =
                         IF o = order /\ drv.loop_once /\ drv.first_occurrence[o] = << >>
                         THEN << drv.samples_generated, Len(opl.writes) >>
                         ELSE drv.first_occurrence[o]]_vars
    /\ [][(opl'.loop_point_marked /\ ~opl.loop_point_marked) =>
              /\ pc = "update" /\ ticks'.finished
              /\ order' < drv.prev_order
              /\ drv.prev_order = ticks.log[Len(ticks.log)].order
              /\ drv.first_occurrence[order'] # << >>
              /\ << opl'.loop_sample_pos, opl'.loop_write_index >>
                     = drv.first_occurrence[order']]_vars
    /\ [][opl.loop_point_marked =>
              /\ opl'.loop_point_marked
              /\ opl'.loop_sample_pos = opl.loop_sample_pos
              /\ opl'.loop_write_index = opl.loop_write_index]_vars

\* C25 witness: a position sighted twice (at samples 0 and later) whose first
\* entry was published as the loop point, after a further position
C25_Witness ==
    /\ pc = "finish" /\ opl.loop_point_marked
    /\ Len(ticks.log) = 3
    /\ ticks.log[1].order = order /\ ticks.log[2].order = order
    /\ ticks.log[3].order > order
    /\ ticks.log[2].samples > 0
    /\ opl.loop_sample_pos = 0
    /\ drv.first_occurrence[order] = << 0, ticks.log[1].writes >>

\* the first step of generateVgm after which P holds of the buffer, 0 if none
FirstStep(steps, P(_)) ==
    LET J == {j \in 1..Len(steps) : P(steps[j])}
    IN  IF J = {} THEN 0 ELSE SetMin(J)

\* C26, as it holds: the loop-offset and loop-sample fields are back-patched
\* after the terminal 0x66 is emitted and after the GD3 tag is appended, as
\* the last step; the patch changes the eight header bytes from 0x1C on and
\* nothing else.
C26_LoopPatchedLast ==
    (pc = "done" /\ GetU32(vgm, 28) # 0) =>
        LET steps == generateVgmSteps(opl, gd3_tag)
            n == Len(steps)
            patched == FirstStep(steps, LAMBDA b : GetU32(b, 28) # 0)
            ended == FirstStep(steps, LAMBDA b : b[Len(b)] = CMD_END
                                                 /\ Len(b) > Len(steps[2]))
            tagged == FirstStep(steps, LAMBDA b : GetU32(b, VGM_OFF_GD3) # 0)
        IN  /\ vgm = steps[n]
            /\ patched = n /\ ended > 0 /\ ended < patched
            /\ gd3_tag # NoTag => (tagged > 0 /\ tagged < patched)
            /\ Len(steps[n]) = Len(steps[n - 1])
            /\ \A i \in 1..Len(steps[n]) :
                   i \notin 29..36 => steps[n][i] = steps[n - 1][i]

\* C26: the loop-offset and loop-sample fields are back-patched after the
\* terminal 0x66 is emitted and before the GD3 tag is appended.
C26_LoopPatchedBeforeGd3 ==
    (pc = "done" /\ GetU32(vgm, 28) # 0) =>
        LET steps == generateVgmSteps(opl, gd3_tag)
            patched == FirstStep(steps, LAMBDA b : GetU32(b, 28) # 0)
            ended == FirstStep(steps, LAMBDA b : b[Len(b)] = CMD_END
                                                 /\ Len(b) > Len(steps[2]))
            tagged == FirstStep(steps, LAMBDA b : GetU32(b, VGM_OFF_GD3) # 0)
        IN  /\ ended > 0 /\ ended < patched
            /\ gd3_tag # NoTag => (tagged > 0 /\ patched < tagged)

\* C26 witness: a file with a loop and a GD3 tag
C26_Witness ==
    /\ pc = "done" /\ GetU32(vgm, 28) # 0 /\ GetU32(vgm, 32) # 0
    /\ gd3_tag # NoTag /\ GetU32(vgm, VGM_OFF_GD3) # 0

\* C27: whenever a VGM of generateVgm has a non-zero loop offset, the delay
\* samples encoded from the loop-offset position to the 0x66 end marker equal
\* the loop-samples field at 0x20.
C27_LoopSamplesEncoded ==
    (pc = "done" /\ variant = "passive" /\ GetU32(vgm, 28) # 0) =>
        LET target == GetU32(vgm, 28) + 28
            p == Play(vgm, target, 0, target, << >>)
        IN  p.ok /\ p.samples = GetU32(vgm, 32)

\* convertHMPtoMIDI run to its return from the state h (a delta that has more
\* than one outcome takes one of them)
RECURSIVE RunHmp(_)
RunHmp(h) ==
    IF h.at = "done" THEN h
    ELSE RunHmp(
        CASE h.at = "header" -> HmpHeaderStep(h)
          [] h.at = "chunk" -> HmpChunkStep(h)
          [] h.at = "delta" ->
                 HmpReadDelta(h, CHOOSE r \in readHMPVarLen(h.hmp_data, h.hmp_size, h.chunk_pos) : TRUE)
          [] h.at = "event" /\ HmpLoopCondition(h) -> HmpEventStep(h)
          [] OTHER -> HmpEndChunkStep(h))

\* the offset in body of the delta of its first tempo event (one delta byte,
\* FF 51 03 tt tt tt), -1 if it holds none
TempoAt(body) ==
    LET J == {j \in 0..(Len(body) - 7) :
                  body[j + 1] >= 128 /\ SubSeq(body, j + 2, j + 4) = << 255, 81, 3 >>}
    IN  IF J = {} THEN -1 ELSE SetMin(J)

\* body with the tempo event at offset j removed and its delta added to the
\* delta of the event that follows (deltas of one byte)
WithoutTempo(body, j) ==
    SubSeq(body, 1, j)
        \o (IF Len(body) >= j + 8
            THEN << body[j + 1] + body[j + 8] - 128 >> \o SubSeq(body, j + 9, Len(body))
            ELSE << >>)

\* C28: a tempo meta event (FF 51 03 tt tt tt) inside a chunk is discarded
\* without disturbing the decoding of the events around it: the output for a
\* file of one chunk is the output for the same file with the tempo event
\* removed from the chunk and its delta added to the delta of the following
\* event.
C28_TempoDiscarded ==
    (pc = "hmp" /\ hmp.at = "done" /\ ~BadHeader(hmp.hmp_data)
        /\ HeaderEnd(hmp.hmp_data) = 776 /\ hmp.hmp_data[49] = 1
        /\ hmp.hmp_size >= 788
        /\ hmp.hmp_size = 776 + hmp.hmp_data[781] + 256 * hmp.hmp_data[782]) =>
        LET body == SubSeq(hmp.hmp_data, 789, hmp.hmp_size)
            j == TempoAt(body)
        IN  (j >= 0 /\ (Len(body) >= j + 8 => body[j + 8] \in 128..200)) =>
                LET body2 == WithoutTempo(body, j)
                    file2 == SubSeq(hmp.hmp_data, 1, 776)
                                 \o LE32(0) \o LE32(12 + Len(body2)) \o LE32(0) \o body2
                    ref == RunHmp(HmpStart(file2))
                IN  hmp.result = ref.result /\ hmp.midi_out = ref.midi_out

RECURSIVE GCD(_, _)
GCD(a, b) == IF b = 0 THEN a ELSE GCD(b, a % b)

\* the fraction << numerator, denominator >> in lowest terms
Reduced(n, d) == << n \div GCD(n, d), d \div GCD(n, d) >>

\* the exact sum of 44100 / r over the rates r of the ticks i..Len(rates),
\* added to the fraction x
RECURSIVE ExactSamples(_, _, _)
ExactSamples(rates, i, x) ==
    IF i > Len(rates) THEN x
    ELSE LET r == rates[i]
             y == Reduced(44100 * Pow2(IF r[2] < 0 THEN -r[2] ELSE 0),
                          r[1] * Pow2(IF r[2] > 0 THEN r[2] ELSE 0))
         IN  ExactSamples(rates, i + 1,
                          Reduced(x[1] * y[2] + y[1] * x[2], x[2] * y[2]))

\* every double of the loop so far was below 2^32
InRange == drv.fractional_samples[1] # -1

C30_LoopTerminates ==
    /\ [][(pc = "update" /\ pc' # "update") =>
              /\ U32Less(drv.samples_generated, drv'.samples_generated)
              /\ pc' = "finish" <=>
                     (ticks'.finished \/ ~U32Less(drv'.samples_generated, max_samples))]_vars
    /\ [](pc = "poll" =>
              /\ U32Less(drv.samples_generated, max_samples)
              /\ advances <= drv.samples_generated)

====
